---- MODULE Spec2Model ----
(***************************************************************************)
(* Meshling: the EventBus (core/event_bus.py), the Transports              *)
(* (interfaces/*_interface.py), the AutoDetector and the ConnectionManager *)
(* (core/connection_manager.py) as one state machine.                      *)
(*                                                                         *)
(* Scheduling is asyncio's: one coroutine runs at a time and control       *)
(* changes hands only at an await that really suspends.  An action is the  *)
(* code between two such suspension points.                                *)
(***************************************************************************)
EXTENDS Integers, Sequences, FiniteSets, TLC

\* ------------------------------------------------------------------ bounds
MaxEvents == 2      \* Emit calls made by producers of the bus specification
MaxTasks == 2       \* consumer tasks start() may create
MaxSubscribes == 2  \* subscribe() calls
MaxUnsubscribes == 1 \* unsubscribe() calls
MaxCalls == 3       \* calls of the ConnectionManager's connect/disconnect methods
MaxRetryCalls == 4  \* the same, where the retry chain of the reconnect task is followed
MaxTransports == 2  \* Transport objects constructed
MaxReplaceCalls == 3  \* connect calls that replace one another's Transport
MaxReplaceTransports == 3  \* Transport objects those calls construct
MaxResponders == 3  \* addresses at which something answers a probe
MaxPackets == 2     \* packets the drivers report
MaxPolicyCalls == 2  \* the same, where several FAILED notifications are followed
MaxFailures == 2     \* FAILED notifications, where the reconnection policy is followed
MaxNotifications == 1 \* runs of the manager's status handler

\* ------------------------------------------------------------- EventBus data
\* The members of EventType the model uses.
EventType ==
    {"connection_established", "connection_lost", "connection_failed",
     "packet_received", "packet_sent", "packet_failed",
     "device_status_changed", "message_send_requested"}

\* The type the subscribers of the bus specifications subscribe to, and the
\* types their producers emit (the second has no subscriber).
BusTypes == {"packet_received"}
EmitTypes == {"packet_received", "connection_lost"}

\* Callback identities (bound methods of the display layer).
Callbacks == {"cb1", "cb2"}

\* What one invocation of a callback does: return, raise an Exception, or
\* (a coroutine function) suspend at an await of its own.
Outcomes == {"return", "raise", "suspend"}

NoEvent == [type |-> "none", data |-> "", seq |-> 0]

\* Event(event_type, data); seq is the position in emission order and stands
\* for the timestamp.
Event(t, d, n) == [type |-> t, data |-> d, seq |-> n]

NoTask == 0

IdleTask ==
    [pc |-> "none", ev |-> NoEvent, idx |-> 0, snapshot |-> <<>>,
     removed |-> {}, added |-> {}, raised |-> 0]

\* ---------------------------------------------------- ConnectionManager data
\* ConnectionStatus
ConnectionStatus == {"disconnected", "connecting", "connected", "reconnecting", "failed"}

\* "self._interface is None"
NoTransport == 0

\* The port of TCPInterface(host, port=4403) and connect_tcp(host, port=4403).
DefaultPort == 4403

\* What the environment offers: hosts that may answer on the network (in
\* address order) and serial ports that may look like a device.  Packets are
\* numbered in the order the drivers report them.
TcpHosts == <<"192.168.1.1", "192.168.1.2">>
SerialPorts == {"/dev/ttyUSB0", "/dev/ttyS9"}

\* The host connect_tcp(host) is called with.
ConnectHosts == {TcpHosts[1]}

\* The ports connect_serial(port) is called with, and those of them on which
\* the driver's SerialInterface(devPath=port) would open; on any other port
\* the driver's open raises.
ConnectPorts == {"/dev/ttyUSB0", "/dev/ttyS9"}
DevicePorts == {"/dev/ttyUSB0"}

\* The lists find_tcp_devices() can return and the lists find_serial_devices()
\* can return.
TcpCandidates == {<<>>, <<TcpHosts[1]>>, <<TcpHosts[2]>>, TcpHosts}
SerialCandidates == {<<>>} \cup {<<p>> : p \in SerialPorts}

VARIABLES
    subscribers,      \* EventBus._subscribers: EventType -> list of callbacks
    running,          \* EventBus._running
    event_queue,      \* EventBus._event_queue
    processor_task,   \* EventBus._processor_task: a task id, or NoTask
    tasks,            \* the consumer tasks created by start(): id -> frame
    emitted,          \* history: number of Event objects constructed
    delivered,        \* history: the callback invocations, in order
    active,           \* history: coroutine callbacks started and not finished
    nsub,             \* history: number of subscribe() calls
    nunsub,           \* history: number of unsubscribe() calls
    sub_log,          \* history: the subscribe() calls per type, in order
    unsub_seen,       \* history: whether unsubscribe() removed an entry of the type
    noop_calls,       \* history: start() seen while running, stop() while stopped
    stop_left,        \* history: the events still queued at the latest stop()
    transports,       \* the Transport objects constructed: id -> fields
    interface,        \* ConnectionManager._interface: a Transport id, or NoTransport
    connection_params, \* ConnectionManager._connection_params
    auto_reconnect,   \* ConnectionManager._auto_reconnect
    reconnect_task,   \* ConnectionManager._reconnect_task
    calls,            \* the calls of the manager's methods: id -> frame
    received,         \* history: the packets the drivers reported, in order
    unawaited,        \* history: coroutine objects created and never awaited
    overlapped,       \* history: a call was made while another was in flight
    chain,            \* history: reconnect tasks created and attempts made since
                      \* the latest status notification that created a task
    scan              \* a call of AutoDetector.find_tcp_devices: what answers on
                      \* the network, and the devices it returned

busvars == <<subscribers, running, event_queue, processor_task, tasks>>
connvars == <<transports, interface, connection_params, auto_reconnect,
              reconnect_task, calls, received, unawaited, overlapped, chain, scan>>
\* What the ConnectionManager and the Transports leave alone: the bus but for
\* its queue, and the address scan.
busrest == <<subscribers, running, processor_task, tasks, delivered, active, nsub,
             nunsub, sub_log, unsub_seen, noop_calls, stop_left, scan>>
\* What the address scan leaves alone.
scanrest == <<subscribers, running, event_queue, processor_task, tasks,
              emitted, delivered, active, nsub, nunsub, sub_log, unsub_seen,
              noop_calls, stop_left, transports, interface, connection_params,
              auto_reconnect, reconnect_task, calls, received, unawaited, overlapped,
              chain>>
vars == <<subscribers, running, event_queue, processor_task, tasks,
          emitted, delivered, active, nsub, nunsub, sub_log, unsub_seen,
          noop_calls, stop_left, transports, interface, connection_params,
          auto_reconnect, reconnect_task, calls, received, unawaited, overlapped,
          chain, scan>>

\* --------------------------------------------------------------- list helpers
Range(s) == {s[i] : i \in 1..Len(s)}

Count(s, x) == Cardinality({i \in 1..Len(s) : s[i] = x})

\* list.remove(x): drops the first occurrence; the caller catches ValueError.
ListRemove(s, x) ==
    IF x \in Range(s)
    THEN LET i == CHOOSE j \in 1..Len(s) : s[j] = x /\ \A k \in 1..(j-1) : s[k] # x
         IN  SubSeq(s, 1, i-1) \o SubSeq(s, i+1, Len(s))
    ELSE s

\* ---------------------------------------------------------- EventBus methods
\* EventBus.subscribe: append, no deduplication.
SubscribePrepends(S, t, cb) == [S EXCEPT ![t] = <<cb>> \o @]
subscribe(S, t, cb) == [S EXCEPT ![t] = Append(@, cb)]

\* EventBus.unsubscribe: remove the first matching entry, silently if absent.
unsubscribe(S, t, cb) == [S EXCEPT ![t] = ListRemove(@, cb)]

\* asyncio.Queue.put on the unbounded queue of emit().
QueuePutFront(q, e) == <<e>> \o q
QueuePut(q, e) == Append(q, e)

\* start(): "if self._running: return".
StartNeverReturnsEarly(r) == FALSE
StartReturnsEarly(r) == r

\* stop() leaves self._event_queue as it is.
QueueDrained(q) == <<>>
QueueAfterStop(q) == q

\* _handle_event's try/except around one callback: the frame once the callback
\* has returned or raised an Exception; either way the for loop goes on.
\* (raised: the list position of the first callback that raised, 0 if none.)
RaiseEndsLoop(f, outcome) ==
    [f EXCEPT !.pc = "dispatching",
              !.raised = IF outcome = "raise" /\ @ = 0 THEN f.idx - 1 ELSE @,
              !.idx = IF outcome = "raise" THEN MaxSubscribes + 2 ELSE @]
AfterCallback(f, outcome) ==
    [f EXCEPT !.pc = "dispatching",
              !.raised = IF outcome = "raise" /\ @ = 0 THEN f.idx - 1 ELSE @]

\* "await callback(event)": the frame while a coroutine callback is suspended.
CallbackNotAwaited(f) == [f EXCEPT !.pc = "dispatching"]
AwaitCallback(f) == [f EXCEPT !.pc = "suspended"]

\* ------------------------------------------------------------- derived state
Alive(i) == tasks[i].pc \in {"waiting", "dispatching", "suspended"}

InDispatch(i) == tasks[i].pc \in {"dispatching", "suspended"}

\* A coroutine other than the consumer can run: no consumer is between two
\* suspension points.
CallerCanRun == \A i \in 1..MaxTasks : tasks[i].pc # "dispatching"

FreeTasks == {i \in 1..MaxTasks : tasks[i].pc = "none"}

\* The callbacks invoked with the event numbered n, in invocation order.
Calls(n) ==
    LET sel == SelectSeq(delivered, LAMBDA d : d.seq = n)
    IN  [k \in 1..Len(sel) |-> sel[k].cb]

QueueSeqs == {event_queue[k].seq : k \in 1..Len(event_queue)}

\* ================================================================ Transports
\* BaseInterface.__init__ and TCPInterface/SerialInterface.__init__: a fresh
\* Transport.  handle is "self._interface" (the driver session), monitor is
\* "self._monitor_task".
NewTransport(kind, target) ==
    [kind |-> kind, target |-> target, status |-> "disconnected", handle |-> FALSE,
     monitor |-> "none", packet_callback |-> FALSE, connection_callback |-> FALSE,
     trail |-> <<>>, notified |-> <<>>]

NoTransportRec == NewTransport("none", "")

\* BaseInterface._update_status: "if self._status != new_status" and, inside
\* it, "if self._connection_callback": the callback is called.
NotifiesAlways(tr, new_status) == tr.connection_callback
Notifies(tr, new_status) == tr.status # new_status /\ tr.connection_callback

\* BaseInterface._update_status: the assignment.  trail is the history of the
\* values the status took, notified the history of the values the callback
\* was called with.
UpdateStatus(tr, new_status) ==
    [tr EXCEPT !.status = new_status,
               !.trail = IF tr.status # new_status THEN Append(@, new_status) ELSE @,
               !.notified = IF Notifies(tr, new_status) THEN Append(@, new_status) ELSE @]

\* ... and its call "self._connection_callback(new_status)".  The callback is
\* the coroutine function _on_connection_status_changed and the call is not
\* awaited: it builds a coroutine object that never runs.
StatusNotes(tr, new_status) ==
    IF Notifies(tr, new_status)
    THEN {"_on_connection_status_changed"}
    ELSE {}

\* TCPInterface(host, port) and the first statement of its connect():
\* _update_status(CONNECTING).
BeginConnectSilently(kind, target) == NewTransport(kind, target)
BeginConnect(kind, target) == UpdateStatus(NewTransport(kind, target), "connecting")

\* BaseInterface._handle_packet: "self._packet_callback(packet)", not awaited
\* either.
PacketNotes(tr, packet) ==
    IF tr.packet_callback THEN {"_on_packet_received"} ELSE {}

\* The history of coroutine objects created and never awaited, per function.
Noted(U, notes) == [fn \in DOMAIN U |-> IF fn \in notes THEN U[fn] + 1 ELSE U[fn]]

\* str(e) of the TypeError of "await self._update_status(...)" in
\* SerialInterface: _update_status is a plain function returning None.
AwaitNoneError == "object NoneType can't be used in 'await' expression"

\* ========================================================= ConnectionManager
NoParams == [type |-> "none"]

IdleCall ==
    [op |-> "none", pc |-> "idle", tr |-> NoTransport, old |-> NoTransport,
     cands |-> <<>>, result |-> "none", owner |-> "user"]

DoneCall(op, result) == [IdleCall EXCEPT !.op = op, !.pc = "done", !.result = result]

\* A new call of method op made by owner: the application ("user") or the
\* reconnect task ("reconnect").
NewCall(op, owner) == [IdleCall EXCEPT !.op = op, !.owner = owner]

\* The call of frame f returns.
Return(f, result) == [DoneCall(f.op, result) EXCEPT !.owner = f.owner]

InFlight(c) == calls[c].pc \notin {"idle", "done"}

\* Calls are numbered in the order they are made.
NextCall(c) == calls[c].pc = "idle" /\ \A k \in 1..(c-1) : calls[k].pc # "idle"

FreeTransports == {t \in DOMAIN transports : transports[t].kind = "none"}

ReusedId ==
    IF interface # NoTransport THEN interface
    ELSE CHOOSE t \in FreeTransports : \A u \in FreeTransports : t <= u
NewId == CHOOSE t \in FreeTransports : \A u \in FreeTransports : t <= u

Overlaps == overlapped \/ \E k \in DOMAIN calls : InFlight(k)

\* ConnectionManager.is_connected
IsConnectedAlways == TRUE
IsConnectedBySession ==
    \E t \in DOMAIN transports : transports[t].handle
is_connected ==
    interface # NoTransport /\ transports[interface].status = "connected"

\* ConnectionManager.connection_status
connection_status ==
    IF interface # NoTransport THEN transports[interface].status ELSE "disconnected"

\* self._connection_params as the three connect methods set it.
ParamsOf(f) ==
    CASE f.op = "connect_tcp" ->
            [type |-> "tcp", host |-> transports[f.tr].target, port |-> DefaultPort]
      [] f.op = "connect_serial" ->
            [type |-> "serial", port |-> transports[f.tr].target]
      [] OTHER -> [type |-> "auto"]

\* The 'interface_type' of CONNECTION_ESTABLISHED.
InterfaceTypeOf(f) ==
    CASE f.op = "connect_tcp" -> "tcp"
      [] f.op = "connect_serial" -> "serial"
      [] OTHER -> transports[f.tr].kind

\* "await event_bus.emit(type, data)": the put on the unbounded queue does not
\* suspend.
EmitEvent(t, d) ==
    /\ event_queue' = QueuePut(event_queue, Event(t, d, emitted + 1))
    /\ emitted' = emitted + 1

\* _set_interface from "self._interface = interface" on, and the rest of the
\* connect method: callbacks, parameters, CONNECTION_ESTABLISHED, return True.
Install(c, T, f, notes) ==
    /\ transports' = [T EXCEPT ![f.tr].packet_callback = TRUE,
                               ![f.tr].connection_callback = TRUE]
    /\ interface' = f.tr
    /\ connection_params' = ParamsOf(f)
    /\ EmitEvent("connection_established", InterfaceTypeOf(f))
    /\ calls' = [calls EXCEPT ![c] = Return(f, "true")]
    /\ unawaited' = Noted(unawaited, notes)

\* disconnect() from "self._interface = None" on: parameters cleared,
\* CONNECTION_LOST{reason: user_requested}.
ClearKeepsParams(c, T, f, notes) ==
    /\ transports' = T
    /\ interface' = NoTransport
    /\ connection_params' = connection_params
    /\ EmitEvent("connection_lost", "user_requested")
    /\ calls' = [calls EXCEPT ![c] = Return(f, "none")]
    /\ unawaited' = Noted(unawaited, notes)
ClearSilent(c, T, f, notes) ==
    /\ transports' = T
    /\ interface' = NoTransport
    /\ connection_params' = NoParams
    /\ UNCHANGED <<event_queue, emitted>>
    /\ calls' = [calls EXCEPT ![c] = Return(f, "none")]
    /\ unawaited' = Noted(unawaited, notes)
ClearKeepsInterface(c, T, f, notes) ==
    /\ transports' = T
    /\ interface' = interface
    /\ connection_params' = NoParams
    /\ EmitEvent("connection_lost", "user_requested")
    /\ calls' = [calls EXCEPT ![c] = Return(f, "none")]
    /\ unawaited' = Noted(unawaited, notes)
Clear(c, T, f, notes) ==
    /\ transports' = T
    /\ interface' = NoTransport
    /\ connection_params' = NoParams
    /\ EmitEvent("connection_lost", "user_requested")
    /\ calls' = [calls EXCEPT ![c] = Return(f, "none")]
    /\ unawaited' = Noted(unawaited, notes)

\* Transport.disconnect() returns to a caller that called it directly.
Released(c, T, f, notes) ==
    /\ transports' = T
    /\ calls' = [calls EXCEPT ![c] = [Return(f, "none") EXCEPT !.tr = f.tr]]
    /\ unawaited' = Noted(unawaited, notes)
    /\ UNCHANGED <<interface, connection_params, event_queue, emitted>>

\* The caller of Transport.disconnect() goes on: disconnect(), _set_interface,
\* or a direct caller.
Continue(c, T, f, notes) ==
    CASE f.op = "disconnect"   -> Clear(c, T, f, notes)
      [] f.op = "t_disconnect" -> Released(c, T, f, notes)
      [] OTHER                 -> Install(c, T, f, notes)

\* The caller suspends inside Transport.disconnect() of transport d.
SuspendIn(c, T, f, d, pc) ==
    /\ transports' = T
    /\ calls' = [calls EXCEPT ![c] = [f EXCEPT !.pc = pc, !.old = d]]
    /\ UNCHANGED <<interface, connection_params, event_queue, emitted, unawaited>>

\* TCPInterface.disconnect, last statement: _update_status(DISCONNECTED).
DisconnectEnd(c, T, f, d) ==
    Continue(c, [T EXCEPT ![d] = UpdateStatus(@, "disconnected")], f,
             StatusNotes(T[d], "disconnected"))

\* TCPInterface.disconnect from "if self._interface:" on: close() runs in the
\* executor, so the caller suspends.
DisconnectClose(c, T, f, d) ==
    IF T[d].handle
    THEN SuspendIn(c, T, f, d, "dc_close")
    ELSE DisconnectEnd(c, T, f, d)

\* TCPInterface.disconnect from its first statement: the monitor task is
\* cancelled and awaited; awaiting a task that is already done does not
\* suspend.  (Only a TCP Transport is ever installed: SerialInterface.connect
\* never returns True.)
TransportDisconnect(c, T, f, d) ==
    IF T[d].monitor = "running"
    THEN SuspendIn(c, [T EXCEPT ![d].monitor = "done"], f, d, "dc_monitor")
    ELSE DisconnectClose(c, T, f, d)

\* SerialInterface.connect as called with a port: _update_status(CONNECTING)
\* runs, awaiting its None raises TypeError, the handler runs
\* _update_status(FAILED) and its await raises TypeError again, out of
\* connect().  The driver is never opened.
SerialConnectSucceeds(port) == UpdateStatus(UpdateStatus(NewTransport("serial", port),
                                                         "connecting"), "connected")
SerialConnectRaises(port) == UpdateStatus(UpdateStatus(NewTransport("serial", port),
                                                       "connecting"), "failed")

\* -------------------------------------------- AutoDetector.find_tcp_devices
\* "default_port = 4403"
default_port == 4403

\* "for i in range(1, 255)"
ScanSuffixesTo255 == 1..255
ScanSuffixes == 1..254

\* The prefixes find_tcp_devices is called with (its default is the first),
\* and the addresses at which something may answer: the ends of the scanned
\* range and the address after it in the first network, one address in the
\* other.  Every other address lets the probe time out.
NetworkRanges == {"192.168.1", "10.0.0"}
SampleSuffixes == {1, 254, 255}

\* host = f"{network_range}.{i}"
Host(network_range, i) == <<network_range, i>>

\* What answers at an address: it accepts the connection and lets it be
\* closed, accepts it and resets it so that wait_closed() raises, refuses it,
\* listens on another port only, or makes open_connection raise something
\* that is not an OSError.
Behaviours == {"accepts", "resets", "refuses", "elsewhere", "raises"}

Addresses == {Host("192.168.1", i) : i \in SampleSuffixes} \cup {Host("10.0.0", 1)}

Worlds ==
    UNION {[S -> Behaviours] :
              S \in {A \in SUBSET Addresses : Cardinality(A) <= MaxResponders}}

NoScan == [pc |-> "idle", network_range |-> "", world |-> <<>>, devices |-> <<>>]

\* asyncio.wait_for(asyncio.open_connection(host, port), timeout), then
\* writer.close() and "await writer.wait_closed()".
Probe(world, host, port) ==
    IF host \notin DOMAIN world THEN "timeout"
    ELSE CASE world[host] = "accepts"   -> IF port = DefaultPort THEN "closed" ELSE "refused"
           [] world[host] = "resets"    -> IF port = DefaultPort THEN "close_raised" ELSE "refused"
           [] world[host] = "refuses"   -> "refused"
           [] world[host] = "elsewhere" -> IF port = DefaultPort THEN "refused" ELSE "closed"
           [] OTHER                     -> "raised"

\* AutoDetector._check_tcp_host: True after the connection was opened and
\* closed; False from "except (TimeoutError, ConnectionRefusedError, OSError)"
\* and from "except Exception", which also catch what wait_closed() raises.
CheckOnOpen(world, host, port) == Probe(world, host, port) \in {"closed", "close_raised"}
check_tcp_host(world, host, port) ==
    CASE Probe(world, host, port) = "closed" -> TRUE
      [] Probe(world, host, port) \in {"timeout", "refused", "close_raised"} -> FALSE
      [] OTHER -> FALSE

\* The probes in the order of scan_tasks, and what gather() returns for
\* them, in the same order.
scan_tasks(network_range) ==
    LET first == CHOOSE m \in ScanSuffixes : \A n \in ScanSuffixes : m <= n
    IN  [k \in 1..Cardinality(ScanSuffixes) |-> Host(network_range, first + k - 1)]

Gathered(network_range, world) ==
    LET probes == scan_tasks(network_range)
    IN  [k \in 1..Len(probes) |-> check_tcp_host(world, probes[k], default_port)]

\* "for i, result in enumerate(results)": a result that is True appends
\* (f"{network_range}.{i + 1}", default_port).
IsTrue(e) == e.result = TRUE
Devices(network_range, results) ==
    LET enumerated == [k \in 1..Len(results) |-> [i |-> k - 1, result |-> results[k]]]
        found == SelectSeq(enumerated, IsTrue)
    IN  [j \in 1..Len(found) |-> <<Host(network_range, found[j].i + 1), default_port>>]

\* ---------------------------------------------------------------------- Init
InitWith(ncalls, ntransports) ==
    /\ subscribers = [t \in EventType |-> <<>>]
    /\ running = FALSE
    /\ event_queue = <<>>
    /\ processor_task = NoTask
    /\ tasks = [i \in 1..MaxTasks |-> IdleTask]
    /\ emitted = 0
    /\ delivered = <<>>
    /\ active = {}
    /\ nsub = 0
    /\ nunsub = 0
    /\ sub_log = [t \in EventType |-> <<>>]
    /\ unsub_seen = [t \in EventType |-> FALSE]
    /\ noop_calls = {}
    /\ stop_left = {}
    /\ transports = [t \in 1..ntransports |-> NoTransportRec]
    /\ interface = NoTransport
    /\ connection_params = NoParams
    /\ auto_reconnect = TRUE
    /\ reconnect_task = "none"
    /\ calls = [c \in 1..ncalls |-> IdleCall]
    /\ received = <<>>
    /\ unawaited = [fn \in {"_on_packet_received", "_on_connection_status_changed"} |-> 0]
    /\ overlapped = FALSE
    /\ chain = [scheduled |-> 0, attempts |-> 0, tasks |-> 0]
    /\ scan = NoScan

Init == InitWith(MaxCalls, MaxTransports)

\* The same state, with room for the calls a retry chain needs.
InitRetry == InitWith(MaxRetryCalls, MaxTransports)
InitPolicy == InitWith(MaxPolicyCalls, MaxTransports)

\* The same state, with room for three connect calls and their Transports.
InitReplace == InitWith(MaxReplaceCalls, MaxReplaceTransports)

\* ------------------------------------------------------------ EventBus.start
start ==
    /\ CallerCanRun
    /\ IF StartReturnsEarly(running)
       THEN UNCHANGED <<running, processor_task, tasks>>
       ELSE /\ FreeTasks # {}
            /\ LET id == CHOOSE i \in FreeTasks : \A j \in FreeTasks : i <= j
               IN  /\ tasks' = [tasks EXCEPT ![id] = [IdleTask EXCEPT !.pc = "waiting"]]
                   /\ processor_task' = id
            /\ running' = TRUE
    /\ UNCHANGED <<connvars, subscribers, event_queue, emitted, delivered, active, nsub, nunsub,
                   sub_log, unsub_seen, stop_left>>

\* ------------------------------------------------------------- EventBus.stop
\* cancel() then "await self._processor_task": the cancelled task runs no
\* further statement of _process_events; a coroutine callback it was awaiting
\* is cancelled with it.
stop ==
    /\ CallerCanRun
    /\ IF ~running
       THEN UNCHANGED <<running, tasks, active, event_queue, stop_left>>
       ELSE /\ running' = FALSE
            /\ event_queue' = QueueAfterStop(event_queue)
            /\ stop_left' = QueueSeqs
            /\ IF processor_task # NoTask /\ Alive(processor_task)
               THEN /\ tasks' = [tasks EXCEPT ![processor_task] =
                                    [IdleTask EXCEPT !.pc = "cancelled"]]
                    /\ active' = {a \in active : a.task # processor_task}
               ELSE UNCHANGED <<tasks, active>>
    /\ UNCHANGED <<connvars, subscribers, processor_task, emitted, delivered, nsub, nunsub,
                   sub_log, unsub_seen>>

\* start() and stop() called by the application ...
Start == start /\ UNCHANGED noop_calls

Stop == stop /\ UNCHANGED noop_calls

\* ... and the same calls with the history of the calls that found nothing to do.
StartObserved ==
    /\ start
    /\ noop_calls' = IF running THEN noop_calls \cup {"start"} ELSE noop_calls

StopObserved ==
    /\ stop
    /\ noop_calls' = IF running THEN noop_calls ELSE noop_calls \cup {"stop"}

\* The history of one subscribe()/unsubscribe() call on the list of type t,
\* made during the dispatches in progress of an event of that type.
NoteAdded(T, t, cb) ==
    [i \in 1..MaxTasks |->
        IF T[i].pc \in {"dispatching", "suspended"} /\ T[i].ev.type = t
        THEN [T[i] EXCEPT !.added = @ \cup {cb}]
        ELSE T[i]]

NoteRemoved(T, t, cb) ==
    [i \in 1..MaxTasks |->
        IF T[i].pc \in {"dispatching", "suspended"} /\ T[i].ev.type = t
           /\ cb \in Range(subscribers[t])
        THEN [T[i] EXCEPT !.removed = @ \cup {cb}]
        ELSE T[i]]

\* -------------------------------------------------------- EventBus.subscribe
\* Called by another coroutine while every consumer is suspended.
Subscribe(t, cb) ==
    /\ CallerCanRun
    /\ nsub < MaxSubscribes
    /\ nsub' = nsub + 1
    /\ subscribers' = subscribe(subscribers, t, cb)
    /\ sub_log' = [sub_log EXCEPT ![t] = IF unsub_seen[t] THEN @ ELSE Append(@, cb)]
    /\ tasks' = NoteAdded(tasks, t, cb)
    /\ UNCHANGED <<connvars, running, event_queue, processor_task, emitted, delivered,
                   active, nunsub, unsub_seen, noop_calls, stop_left>>

\* ------------------------------------------------------ EventBus.unsubscribe
Unsubscribe(t, cb) ==
    /\ CallerCanRun
    /\ nunsub < MaxUnsubscribes
    /\ nunsub' = nunsub + 1
    /\ subscribers' = unsubscribe(subscribers, t, cb)
    /\ unsub_seen' = [unsub_seen EXCEPT ![t] = @ \/ cb \in Range(subscribers[t])]
    /\ sub_log' = [sub_log EXCEPT ![t] = IF cb \in Range(subscribers[t]) THEN <<>> ELSE @]
    /\ tasks' = NoteRemoved(tasks, t, cb)
    /\ UNCHANGED <<connvars, running, event_queue, processor_task, emitted, delivered,
                   active, nsub, noop_calls, stop_left>>

\* ------------------------------------------------------------- EventBus.emit
EmitWhenRunning(t, d) ==
    /\ CallerCanRun
    /\ emitted < MaxEvents
    /\ emitted' = emitted + 1
    /\ event_queue' = IF running THEN QueuePut(event_queue, Event(t, d, emitted + 1))
                                 ELSE event_queue
    /\ UNCHANGED <<connvars, subscribers, running, processor_task, tasks, delivered, active,
                   nsub, nunsub, sub_log, unsub_seen, noop_calls, stop_left>>
Emit(t, d) ==
    /\ CallerCanRun
    /\ emitted < MaxEvents
    /\ emitted' = emitted + 1
    /\ event_queue' = QueuePut(event_queue, Event(t, d, emitted + 1))
    /\ UNCHANGED <<connvars, subscribers, running, processor_task, tasks, delivered, active,
                   nsub, nunsub, sub_log, unsub_seen, noop_calls, stop_left>>

\* -------------------------------------------------- EventBus._process_events
\* "event = await wait_for(self._event_queue.get())" returns, and _handle_event
\* reads the subscriber list of the event's type: the list object itself, not a
\* copy.  An empty list returns at once.
Dequeue(i) ==
    /\ tasks[i].pc = "waiting"
    /\ CallerCanRun
    /\ event_queue # <<>>
    /\ LET ev == Head(event_queue)
           subs == subscribers[ev.type]
       IN  /\ event_queue' = Tail(event_queue)
           /\ tasks' = [tasks EXCEPT ![i] =
                  IF subs = <<>>
                  THEN [IdleTask EXCEPT !.pc = IF running THEN "waiting" ELSE "finished"]
                  ELSE [pc |-> "dispatching", ev |-> ev, idx |-> 1, snapshot |-> subs,
                        removed |-> {}, added |-> {}, raised |-> 0]]
    /\ UNCHANGED <<connvars, subscribers, running, processor_task, emitted, delivered, active,
                   nsub, nunsub, sub_log, unsub_seen, noop_calls, stop_left>>

\* What the body of a callback may do to the subscriber list of the event's
\* type before it returns, raises or suspends: nothing, or unsubscribe a
\* callback (itself or another).
CallbackOps == {<<"none", "cb1">>} \cup ({"unsubscribe"} \X Callbacks)

\* ---------------------------------------------------- EventBus._handle_event
\* One turn of "for callback in subscribers": the list iterator yields the
\* entry at its index in the live list and moves on, then the callback runs.
Invoke(i, outcome, op) ==
    /\ tasks[i].pc = "dispatching"
    /\ op[1] = "unsubscribe" => nunsub < MaxUnsubscribes
    /\ LET f == tasks[i]
           t == f.ev.type
           list == subscribers[t]
       IN  /\ f.idx <= Len(list)
           /\ LET cb == list[f.idx]
                  did_remove == op[1] = "unsubscribe" /\ op[2] \in Range(list)
                  f1 == [f EXCEPT !.idx = @ + 1,
                                  !.removed = IF did_remove THEN @ \cup {op[2]} ELSE @]
              IN  /\ delivered' = Append(delivered, [cb |-> cb, seq |-> f.ev.seq])
                  /\ subscribers' = IF op[1] = "unsubscribe"
                                    THEN unsubscribe(subscribers, t, op[2])
                                    ELSE subscribers
                  /\ nunsub' = IF op[1] = "unsubscribe" THEN nunsub + 1 ELSE nunsub
                  /\ unsub_seen' = [unsub_seen EXCEPT ![t] = @ \/ did_remove]
                  /\ sub_log' = [sub_log EXCEPT ![t] = IF did_remove THEN <<>> ELSE @]
                  /\ IF outcome = "suspend"
                     THEN /\ tasks' = [tasks EXCEPT ![i] = AwaitCallback(f1)]
                          /\ active' = active \cup {[task |-> i, cb |-> cb, seq |-> f.ev.seq]}
                     ELSE /\ tasks' = [tasks EXCEPT ![i] = AfterCallback(f1, outcome)]
                          /\ UNCHANGED active
    /\ UNCHANGED <<connvars, running, event_queue, processor_task, emitted, nsub, noop_calls,
                   stop_left>>

\* A suspended coroutine callback finishes: it returns or raises.
Resume(a, outcome) ==
    /\ a \in active
    /\ CallerCanRun
    /\ active' = active \ {a}
    /\ tasks' = [tasks EXCEPT ![a.task] =
                    IF tasks[a.task].pc = "suspended"
                    THEN AfterCallback(tasks[a.task], outcome)
                    ELSE @]
    /\ UNCHANGED <<connvars, subscribers, running, event_queue, processor_task, emitted,
                   delivered, nsub, nunsub, sub_log, unsub_seen, noop_calls, stop_left>>

\* The for loop is exhausted: _handle_event returns and _process_events tests
\* "while self._running" again.
DispatchEnd(i) ==
    /\ tasks[i].pc = "dispatching"
    /\ tasks[i].idx > Len(subscribers[tasks[i].ev.type])
    /\ tasks' = [tasks EXCEPT ![i] =
                    [IdleTask EXCEPT !.pc = IF running THEN "waiting" ELSE "finished"]]
    /\ UNCHANGED <<connvars, subscribers, running, event_queue, processor_task, emitted,
                   delivered, active, nsub, nunsub, sub_log, unsub_seen, noop_calls,
                   stop_left>>

\* ------------------------------------------ ConnectionManager.connect_serial
connect_serial(c, port, owner) ==
    /\ NextCall(c)
    /\ FreeTransports # {}
    /\ transports' = [transports EXCEPT ![NewId] = SerialConnectRaises(port)]
    /\ EmitEvent("connection_failed", AwaitNoneError)
    /\ calls' = [calls EXCEPT ![c] = Return(NewCall("connect_serial", owner), "false")]
    /\ UNCHANGED <<interface, connection_params, auto_reconnect, received, unawaited,
                   busrest>>

\* connect_serial called by the application.
ConnectSerial(c, port) ==
    /\ connect_serial(c, port, "user")
    /\ overlapped' = Overlaps
    /\ UNCHANGED <<reconnect_task, chain>>

\* --------------------------------------------- ConnectionManager.connect_tcp
\* Up to the first suspension: TCPInterface(host, port), connect() sets
\* CONNECTING and opens the driver session in the executor.
connect_tcp(c, host, owner) ==
    /\ NextCall(c)
    /\ FreeTransports # {}
    /\ transports' = [transports EXCEPT ![NewId] =
                         BeginConnect("tcp", host)]
    /\ calls' = [calls EXCEPT ![c] =
                    [NewCall("connect_tcp", owner) EXCEPT !.pc = "open", !.tr = NewId]]
    /\ UNCHANGED <<interface, connection_params, auto_reconnect, received, unawaited,
                   event_queue, emitted, busrest>>

\* connect_tcp called by the application.
ConnectTCP(c, host) ==
    /\ connect_tcp(c, host, "user")
    /\ overlapped' = Overlaps
    /\ UNCHANGED <<reconnect_task, chain>>

\* -------------------------------------------- ConnectionManager.auto_connect
\* AutoDetector.auto_detect: find_serial_devices() has no await inside and
\* returns the candidate ports.  With a candidate, SerialInterface.connect
\* raises out of auto_detect and auto_connect emits CONNECTION_FAILED; with
\* none, find_tcp_devices() suspends in gather().
auto_connect(c, ports, owner) ==
    /\ NextCall(c)
    /\ IF ports # <<>>
       THEN /\ FreeTransports # {}
            /\ transports' = [transports EXCEPT ![NewId] = SerialConnectRaises(Head(ports))]
            /\ EmitEvent("connection_failed", AwaitNoneError)
            /\ calls' = [calls EXCEPT ![c] =
                            Return(NewCall("auto_connect", owner), "false")]
       ELSE /\ calls' = [calls EXCEPT ![c] =
                            [NewCall("auto_connect", owner) EXCEPT !.pc = "scan"]]
            /\ UNCHANGED <<transports, event_queue, emitted>>
    /\ UNCHANGED <<interface, connection_params, auto_reconnect, received, unawaited,
                   busrest>>

\* auto_connect called by the application.
AutoConnect(c, ports) ==
    /\ auto_connect(c, ports, "user")
    /\ overlapped' = Overlaps
    /\ UNCHANGED <<reconnect_task, chain>>

\* auto_detect's "for host, port in tcp_devices": the next candidate gets a
\* TCPInterface and its connect() suspends in the executor; with no candidate
\* left auto_detect returns None and auto_connect emits CONNECTION_FAILED.
TryCandidates(c, T, f, hosts) ==
    IF hosts = <<>>
    THEN /\ transports' = T
         /\ EmitEvent("connection_failed", "No devices found")
         /\ calls' = [calls EXCEPT ![c] = Return(f, "false")]
    ELSE /\ FreeTransports # {}
         /\ transports' = [T EXCEPT ![NewId] =
                              BeginConnect("tcp", Head(hosts))]
         /\ calls' = [calls EXCEPT ![c] =
                         [f EXCEPT !.pc = "open", !.tr = NewId, !.cands = Tail(hosts)]]
         /\ UNCHANGED <<event_queue, emitted>>

\* find_tcp_devices() returns the hosts that answered, in address order.
ScanDone(c, hosts) ==
    /\ calls[c].pc = "scan"
    /\ TryCandidates(c, transports, calls[c], hosts)
    /\ UNCHANGED <<interface, connection_params, auto_reconnect, reconnect_task,
                   received, chain, unawaited, overlapped, busrest>>

\* ------------------------------------------------------ TCPInterface.connect
\* The executor returns from opening the driver session.  Opened: the session
\* is stored, onReceive is set and _update_device_info suspends in the
\* executor.  Raised: status FAILED and connect() returns False; connect_tcp
\* emits CONNECTION_FAILED, auto_detect disconnects the candidate (nothing to
\* cancel or close, status DISCONNECTED) and goes on.
OpenDone(c, ok) ==
    /\ calls[c].pc = "open"
    /\ LET f == calls[c]
           n == f.tr
       IN  IF ok
           THEN /\ transports' = [transports EXCEPT ![n].handle = TRUE]
                /\ calls' = [calls EXCEPT ![c].pc = "info"]
                /\ UNCHANGED <<event_queue, emitted>>
           ELSE IF f.op = "connect_tcp"
           THEN /\ transports' = [transports EXCEPT ![n] = UpdateStatus(@, "failed")]
                /\ EmitEvent("connection_failed", "Failed to connect")
                /\ calls' = [calls EXCEPT ![c] = Return(f, "false")]
           ELSE TryCandidates(c, [transports EXCEPT ![n] =
                                     UpdateStatus(UpdateStatus(@, "failed"), "disconnected")],
                              f, f.cands)
    /\ UNCHANGED <<interface, connection_params, auto_reconnect, reconnect_task,
                   received, chain, unawaited, overlapped, busrest>>

\* _update_device_info returns: the monitor task is created, status CONNECTED,
\* connect() returns True and the manager runs _set_interface, which first
\* disconnects the Transport that is active at that moment.
InfoDone(c) ==
    /\ calls[c].pc = "info"
    /\ LET f == calls[c]
           T == [transports EXCEPT ![f.tr] =
                    UpdateStatus([@ EXCEPT !.monitor = "running"], "connected")]
       IN  IF interface # NoTransport
           THEN TransportDisconnect(c, T, f, interface)
           ELSE Install(c, T, f, {})
    /\ UNCHANGED <<auto_reconnect, reconnect_task, received, chain, overlapped, busrest>>

\* --------------------------------------------------- TCPInterface.disconnect
\* "await self._monitor_task" returns.
MonitorAwaited(c) ==
    /\ calls[c].pc = "dc_monitor"
    /\ DisconnectClose(c, transports, calls[c], calls[c].old)
    /\ UNCHANGED <<auto_reconnect, reconnect_task, received, chain, overlapped, busrest>>

\* The executor returns from close(), normally or with an error that is
\* logged: "finally: self._interface = None".
CloseDone(c) ==
    /\ calls[c].pc = "dc_close"
    /\ DisconnectEnd(c, [transports EXCEPT ![calls[c].old].handle = FALSE],
                     calls[c], calls[c].old)
    /\ UNCHANGED <<auto_reconnect, reconnect_task, received, chain, overlapped, busrest>>

\* ---------------------------------------------- ConnectionManager.disconnect
\* The calls the reconnect task is suspended in.
ReconnectFrames == {k \in DOMAIN calls : calls[k].owner = "reconnect" /\ InFlight(k)}

\* The reconnect task exists and is not done().
ReconnectAlive ==
    \/ reconnect_task \in {"created", "sleep5", "sleep10"}
    \/ reconnect_task = "calling" /\ ReconnectFrames # {}

\* "await self._reconnect_task" returns (or raises CancelledError, which is
\* caught) once the task has terminated.
ReconnectDoneAtOnce == TRUE
ReconnectDone == ~ReconnectAlive

\* task.cancel() thrown into a call the reconnect task is suspended in.
\* CancelledError is not an Exception, so no handler of connect(),
\* _update_device_info, find_tcp_devices or the connect methods catches it and
\* the call is abandoned where it is.  The one exception is the await of the
\* monitor task inside Transport.disconnect(): the monitor ends normally, or
\* the "except asyncio.CancelledError: pass" around the await swallows the
\* error, and the call goes on as if never cancelled.
CancelFrame(f) ==
    IF f.pc = "dc_monitor" THEN f ELSE Return(f, "cancelled")

\* Cancelled inside "await run_in_executor(close)": "finally: self._interface
\* = None" still runs, _update_status(DISCONNECTED) does not.
CancelTransports(T) ==
    [t \in DOMAIN transports |->
        IF \E k \in ReconnectFrames : calls[k].pc = "dc_close" /\ calls[k].old = t
        THEN [T[t] EXCEPT !.handle = FALSE]
        ELSE T[t]]

\* The reconnect task after cancel().
CancelledTask ==
    IF \E k \in ReconnectFrames : calls[k].pc = "dc_monitor"
    THEN reconnect_task
    ELSE "cancelled"

\* disconnect() from "if self._interface:" on.
DisconnectInterface(c, f) ==
    IF interface # NoTransport
    THEN TransportDisconnect(c, transports, f, interface)
    ELSE Clear(c, transports, f, {})

\* disconnect(), first statement: "self._auto_reconnect = False".
DisconnectKeepsAutoReconnect == auto_reconnect
DisconnectDisables == FALSE

\* disconnect() up to its first suspension: auto-reconnect off, a reconnect
\* task that is not done is cancelled and awaited.
Disconnect(c) ==
    /\ NextCall(c)
    /\ auto_reconnect' = DisconnectDisables
    /\ overlapped' = Overlaps
    /\ LET f == NewCall("disconnect", "user")
       IN  IF ReconnectAlive
           THEN /\ reconnect_task' = CancelledTask
                /\ calls' = [k \in DOMAIN calls |->
                                IF k = c THEN [f EXCEPT !.pc = "await_reconnect"]
                                ELSE IF k \in ReconnectFrames THEN CancelFrame(calls[k])
                                ELSE calls[k]]
                /\ transports' = CancelTransports(transports)
                /\ UNCHANGED <<interface, connection_params, event_queue, emitted,
                               unawaited>>
           ELSE /\ DisconnectInterface(c, f)
                /\ UNCHANGED reconnect_task
    /\ UNCHANGED <<received, chain, busrest>>

\* "await self._reconnect_task" returns and disconnect() goes on.
DisconnectResumes(c) ==
    /\ calls[c].pc = "await_reconnect"
    /\ ReconnectDone
    /\ DisconnectInterface(c, calls[c])
    /\ UNCHANGED <<auto_reconnect, reconnect_task, received, chain, overlapped, busrest>>

\* -------------------------------------------- ConnectionManager.send_message
\* str(e) of "self._interface.send_message" on a manager without interface.
NoInterfaceError == "'NoneType' object has no attribute 'send_message'"

\* The manager's part after the Transport's send_message returned success (or
\* raised): PACKET_SENT, PACKET_FAILED 'Send failed', or PACKET_FAILED str(e)
\* from the except clause; "return success" or "return False".
SendResultReturnsTrue(c, f, success) ==
    /\ CASE success = "true"  -> EmitEvent("packet_sent", "text")
         [] success = "false" -> EmitEvent("packet_failed", "Send failed")
         [] OTHER             -> EmitEvent("packet_failed", success)
    /\ calls' = [calls EXCEPT ![c] = Return(f, "true")]
SendResult(c, f, success) ==
    /\ CASE success = "true"  -> EmitEvent("packet_sent", "text")
         [] success = "false" -> EmitEvent("packet_failed", "Send failed")
         [] OTHER             -> EmitEvent("packet_failed", success)
    /\ calls' = [calls EXCEPT ![c] = Return(f, IF success = "true" THEN "true" ELSE "false")]

\* TCPInterface.send_message: what it returns once the executor is back from
\* sendText, which returned (ok) or raised; "except Exception: return False".
SendOutcome(ok) == IF ok THEN "true" ELSE "false"

\* TCPInterface.send_message / SerialInterface.send_message, first statement:
\* "if not self._interface or self._status != ConnectionStatus.CONNECTED:
\* return False".
CanSendWithHandle(tr) == tr.handle
CanSend(tr) == tr.handle /\ tr.status = "connected"

\* send_message up to its first suspension.  Not connected: PACKET_FAILED 'Not
\* connected' and False.  Else the active Transport's send_message runs: it
\* returns False at once without a driver session, else sendText runs in the
\* executor.
SendMessage(c) ==
    /\ NextCall(c)
    /\ overlapped' = Overlaps
    /\ LET f == NewCall("send_message", "user")
       IN  IF ~is_connected
           THEN /\ EmitEvent("packet_failed", "Not connected")
                /\ calls' = [calls EXCEPT ![c] = Return(f, "false")]
           ELSE IF interface = NoTransport
           THEN SendResult(c, f, NoInterfaceError)
           ELSE IF ~CanSend(transports[interface])
           THEN SendResult(c, f, "false")
           ELSE /\ calls' = [calls EXCEPT ![c] = [f EXCEPT !.pc = "send", !.tr = interface]]
                /\ UNCHANGED <<event_queue, emitted>>
    /\ UNCHANGED <<transports, interface, connection_params, auto_reconnect,
                   reconnect_task, received, chain, unawaited, busrest>>

\* The executor returns from sendText.
SendDone(c, ok) ==
    /\ calls[c].pc = "send"
    /\ SendResult(c, calls[c], SendOutcome(ok))
    /\ UNCHANGED <<transports, interface, connection_params, auto_reconnect,
                   reconnect_task, received, chain, unawaited, overlapped, busrest>>

\* ------------------------------------------- ConnectionManager.get_node_info
\* TCPInterface.get_node_info once the executor is back from reading the node
\* table: the normalised mapping, or {} when reading or normalising raised
\* ("except Exception: return {}").
NodeInfoRaises(ok) == IF ok THEN "nodes" ELSE "raised"
NodeInfoOutcome(ok) == IF ok THEN "nodes" ELSE "empty"

\* get_node_info up to its first suspension: {} when not connected or when the
\* Transport has no driver session; the manager has no handler of its own and
\* returns what the Transport returns.
GetNodeInfo(c) ==
    /\ NextCall(c)
    /\ overlapped' = Overlaps
    /\ LET f == NewCall("get_node_info", "user")
       IN  IF is_connected /\ interface # NoTransport /\ transports[interface].handle
           THEN calls' = [calls EXCEPT ![c] = [f EXCEPT !.pc = "nodes", !.tr = interface]]
           ELSE calls' = [calls EXCEPT ![c] = Return(f, "empty")]
    /\ UNCHANGED <<transports, interface, connection_params, auto_reconnect,
                   reconnect_task, received, chain, unawaited, event_queue, emitted, busrest>>

\* The executor returns from reading the node table.
NodeInfoDone(c, ok) ==
    /\ calls[c].pc = "nodes"
    /\ calls' = [calls EXCEPT ![c] = Return(calls[c], NodeInfoOutcome(ok))]
    /\ UNCHANGED <<transports, interface, connection_params, auto_reconnect,
                   reconnect_task, received, chain, unawaited, overlapped, event_queue,
                   emitted, busrest>>

\* ----------------------------------------- ConnectionManager.get_device_info
\* The device_info of the interface, {} without one; no await inside.
GetDeviceInfo(c) ==
    /\ NextCall(c)
    /\ overlapped' = Overlaps
    /\ calls' = [calls EXCEPT ![c] =
                    Return(NewCall("get_device_info", "user"),
                           IF interface # NoTransport THEN "info" ELSE "empty")]
    /\ UNCHANGED <<transports, interface, connection_params, auto_reconnect,
                   reconnect_task, received, chain, unawaited, event_queue, emitted, busrest>>

\* ================================================ Transports called directly
\* A caller other than the manager constructs a Transport.
Construct(kind, target) ==
    /\ FreeTransports # {}
    /\ transports' = [transports EXCEPT ![NewId] = NewTransport(kind, target)]
    /\ UNCHANGED <<interface, connection_params, auto_reconnect, reconnect_task, calls,
                   received, chain, unawaited, overlapped, event_queue, emitted, busrest>>

\* The calls in flight on Transport t.
CallsOn(t) == {k \in DOMAIN calls : InFlight(k) /\ t \in {calls[k].tr, calls[k].old}}

\* SerialInterface.disconnect on a Transport without monitor and session (the
\* only serial Transports there are): _update_status(DISCONNECTED) runs and
\* awaiting its None raises TypeError out of disconnect().
SerialDisconnectRaises(tr) == UpdateStatus(tr, "disconnected")

\* Transport.connect() called on a Transport that is not connected and has no
\* call in flight.  Serial: TypeError out of connect(), status Failed.  TCP:
\* status Connecting, the driver session is opened in the executor.
TConnect(c, t) ==
    /\ NextCall(c)
    /\ transports[t].kind \in {"serial", "tcp"}
    /\ transports[t].status \in {"disconnected", "failed"}
    /\ CallsOn(t) = {}
    /\ LET f == [NewCall("t_connect", "user") EXCEPT !.tr = t]
       IN  IF transports[t].kind = "serial"
           THEN /\ transports' = [transports EXCEPT ![t] =
                                     UpdateStatus(UpdateStatus(@, "connecting"), "failed")]
                /\ calls' = [calls EXCEPT ![c] = [Return(f, "raised") EXCEPT !.tr = t]]
           ELSE /\ transports' = [transports EXCEPT ![t] = UpdateStatus(@, "connecting")]
                /\ calls' = [calls EXCEPT ![c] = [f EXCEPT !.pc = "t_open"]]
    /\ UNCHANGED <<interface, connection_params, auto_reconnect, reconnect_task,
                   received, chain, unawaited, overlapped, event_queue, emitted, busrest>>

\* The executor returns from opening the driver session: stored, and
\* _update_device_info suspends; or raised: status Failed, return False.
TOpenDone(c, ok) ==
    /\ calls[c].pc = "t_open"
    /\ LET f == calls[c]
       IN  IF ok
           THEN /\ transports' = [transports EXCEPT ![f.tr].handle = TRUE]
                /\ calls' = [calls EXCEPT ![c].pc = "t_info"]
           ELSE /\ transports' = [transports EXCEPT ![f.tr] = UpdateStatus(@, "failed")]
                /\ calls' = [calls EXCEPT ![c] = [Return(f, "false") EXCEPT !.tr = f.tr]]
    /\ UNCHANGED <<interface, connection_params, auto_reconnect, reconnect_task,
                   received, chain, unawaited, overlapped, event_queue, emitted, busrest>>

\* _update_device_info returns: monitor task created, status Connected,
\* return True.
TInfoDone(c) ==
    /\ calls[c].pc = "t_info"
    /\ LET f == calls[c]
       IN  /\ transports' = [transports EXCEPT ![f.tr] =
                                UpdateStatus([@ EXCEPT !.monitor = "running"], "connected")]
           /\ calls' = [calls EXCEPT ![c] = [Return(f, "true") EXCEPT !.tr = f.tr]]
    /\ UNCHANGED <<interface, connection_params, auto_reconnect, reconnect_task,
                   received, chain, unawaited, overlapped, event_queue, emitted, busrest>>

\* Transport.disconnect() called directly, in any status, unless connect() is
\* still running on the Transport.
TDisconnect(c, t) ==
    /\ NextCall(c)
    /\ transports[t].kind \in {"serial", "tcp"}
    /\ \A k \in CallsOn(t) : calls[k].op # "t_connect"
    /\ LET f == [NewCall("t_disconnect", "user") EXCEPT !.tr = t]
       IN  IF transports[t].kind = "serial"
           THEN /\ transports' = [transports EXCEPT ![t] = SerialDisconnectRaises(@)]
                /\ calls' = [calls EXCEPT ![c] = [Return(f, "raised") EXCEPT !.tr = t]]
                /\ UNCHANGED <<interface, connection_params, event_queue, emitted,
                               unawaited>>
           ELSE TransportDisconnect(c, transports, f, t)
    /\ UNCHANGED <<auto_reconnect, reconnect_task, received, chain, overlapped, busrest>>

\* Transport.send_message() called directly: False at once unless the
\* Transport is Connected with a driver session, else sendText runs in the
\* executor.
TSend(c, t) ==
    /\ NextCall(c)
    /\ transports[t].kind \in {"serial", "tcp"}
    /\ LET f == [NewCall("t_send", "user") EXCEPT !.tr = t]
       IN  IF CanSend(transports[t])
           THEN calls' = [calls EXCEPT ![c] = [f EXCEPT !.pc = "t_send"]]
           ELSE calls' = [calls EXCEPT ![c] = [Return(f, "false") EXCEPT !.tr = t]]
    /\ UNCHANGED <<transports, interface, connection_params, auto_reconnect,
                   reconnect_task, received, chain, unawaited, overlapped, event_queue,
                   emitted, busrest>>

\* The executor returns from sendText.
TSendDone(c, ok) ==
    /\ calls[c].pc = "t_send"
    /\ calls' = [calls EXCEPT ![c] =
                    [Return(calls[c], SendOutcome(ok)) EXCEPT !.tr = calls[c].tr]]
    /\ UNCHANGED <<transports, interface, connection_params, auto_reconnect,
                   reconnect_task, received, chain, unawaited, overlapped, event_queue,
                   emitted, busrest>>

\* ---------------------- ConnectionManager._on_connection_status_changed
\* The handler runs with the given status: on FAILED with auto-reconnect on
\* and no reconnect task alive it creates one; it always emits
\* DEVICE_STATUS_CHANGED.
\* "if not self._reconnect_task or self._reconnect_task.done()"
MayStartAlways == TRUE
MayStartReconnect == ~ReconnectAlive

Notify(st, max) ==
    /\ Cardinality({k \in 1..Len(event_queue) :
                       event_queue[k].type = "device_status_changed"}) < max
    /\ IF st = "failed" /\ auto_reconnect /\ MayStartReconnect
       THEN /\ reconnect_task' = "created"
            /\ chain' = [scheduled |-> 1, attempts |-> 0, tasks |-> chain.tasks + 1]
       ELSE UNCHANGED <<reconnect_task, chain>>
    /\ EmitEvent("device_status_changed", st)
    /\ UNCHANGED <<transports, interface, connection_params, auto_reconnect, calls,
                   received, unawaited, overlapped, busrest>>

StatusChanged(st) == Notify(st, MaxNotifications)

\* The handler run for a FAILED status, as often as the policy is followed.
FailedNotified == Notify("failed", MaxFailures)

\* ------------------------------------ ConnectionManager.set_auto_reconnect
set_auto_reconnect(enabled) ==
    /\ auto_reconnect # enabled
    /\ auto_reconnect' = enabled
    /\ UNCHANGED <<transports, interface, connection_params, reconnect_task, calls,
                   received, chain, unawaited, overlapped, event_queue, emitted, busrest>>

\* ----------------------------------- ConnectionManager._attempt_reconnect
\* The task starts: it returns at once without parameters or with
\* auto-reconnect off, else it sleeps 5.  Or its sleep of 10 ends: a new task
\* is created if auto-reconnect is still on.
\* "if self._auto_reconnect:  # Check again in case it was disabled"
RetryIfEnabled == auto_reconnect

ReconnectStep ==
    /\ reconnect_task \in {"created", "sleep10"}
    /\ reconnect_task' =
           IF reconnect_task = "created"
           THEN IF connection_params = NoParams \/ ~auto_reconnect THEN "done" ELSE "sleep5"
           ELSE IF RetryIfEnabled THEN "created" ELSE "done"
    /\ chain' = IF reconnect_task = "sleep10" /\ RetryIfEnabled
                THEN [chain EXCEPT !.scheduled = @ + 1, !.tasks = @ + 1]
                ELSE chain
    /\ UNCHANGED <<transports, interface, connection_params, auto_reconnect, calls,
                   received, unawaited, overlapped, event_queue, emitted, busrest>>

\* The sleep of 5 ends: the task calls the connect method the recorded
\* parameters name.  Without parameters params['type'] raises, and the handler
\* sleeps 10 if auto-reconnect is on.
ReconnectWake(c, ports) ==
    /\ reconnect_task = "sleep5"
    /\ chain' = [chain EXCEPT !.attempts = @ + 1]
    /\ CASE connection_params.type = "tcp" ->
              /\ connect_tcp(c, connection_params.host, "reconnect")
              /\ reconnect_task' = "calling"
         [] connection_params.type = "serial" ->
              /\ connect_serial(c, connection_params.port, "reconnect")
              /\ reconnect_task' = "calling"
         [] connection_params.type = "auto" ->
              /\ auto_connect(c, ports, "reconnect")
              /\ reconnect_task' = "calling"
         [] OTHER ->
              /\ reconnect_task' = IF auto_reconnect THEN "sleep10" ELSE "done"
              /\ UNCHANGED <<transports, interface, connection_params, auto_reconnect,
                             calls, received, unawaited, event_queue, emitted, busrest>>
    /\ UNCHANGED overlapped

\* ------------------------------------------------- TCPInterface._on_receive
\* The driver reports a packet on an open session: _on_receive builds the
\* packet dictionary and _handle_packet calls the packet callback.
ReceivePacket(t) ==
    /\ transports[t].handle
    /\ Len(received) < MaxPackets
    /\ received' = Append(received, [tr |-> t, packet |-> Len(received) + 1,
                                     on_active |-> interface = t])
    /\ unawaited' = Noted(unawaited, PacketNotes(transports[t], Len(received) + 1))
    /\ UNCHANGED <<transports, interface, connection_params, auto_reconnect,
                   reconnect_task, calls, overlapped, chain, event_queue, emitted,
                   busrest>>

\* ------------------------------------------ TCPInterface._monitor_connection
\* One turn of the monitor loop, from the end of its sleep to the next sleep:
\* "if not self._interface" sets FAILED and leaves the loop, else the loop
\* test "while self._status == CONNECTED" runs.
MonitorKeepsStatus(tr) == tr
MonitorCheck(tr) ==
    IF ~tr.handle THEN [UpdateStatus(tr, "failed") EXCEPT !.monitor = "done"]
    ELSE IF tr.status # "connected" THEN [tr EXCEPT !.monitor = "done"]
    ELSE tr

MonitorTick(t) ==
    /\ transports[t].monitor = "running"
    /\ LET tr == MonitorCheck(transports[t])
       IN  /\ transports' = [transports EXCEPT ![t] = tr]
           /\ unawaited' = Noted(unawaited, StatusNotes(transports[t], tr.status))
    /\ UNCHANGED <<interface, connection_params, auto_reconnect, reconnect_task,
                   calls, received, chain, overlapped, event_queue, emitted, busrest>>

\* The premise of the handle-loss scenario: the driver session of a Connected
\* Transport is found absent ("if not self._interface") by its running monitor.
\* No statement of the program clears the session while the monitor runs
\* (disconnect() cancels the monitor first), so the scenario is granted only in
\* the specification made for it.
HandleLost(t) ==
    /\ transports[t].monitor = "running"
    /\ transports[t].status = "connected"
    /\ transports[t].handle
    /\ transports' = [transports EXCEPT ![t].handle = FALSE]
    /\ UNCHANGED <<interface, connection_params, auto_reconnect, reconnect_task,
                   calls, received, chain, unawaited, overlapped, event_queue, emitted, busrest>>

\* ------------------------------------------------------------- specification
NextBus ==
    \/ Start
    \/ Stop
    \/ \E t \in BusTypes, cb \in Callbacks : Subscribe(t, cb)
    \/ \E t \in BusTypes, cb \in Callbacks : Unsubscribe(t, cb)
    \/ \E t \in EmitTypes : Emit(t, "d")
    \/ \E i \in 1..MaxTasks : Dequeue(i)
    \/ \E i \in 1..MaxTasks, o \in Outcomes, op \in CallbackOps : Invoke(i, o, op)
    \/ \E a \in active, o \in {"return", "raise"} : Resume(a, o)
    \/ \E i \in 1..MaxTasks : DispatchEnd(i)

\* The lifecycle of the bus: start() and stop() in any order, against
\* producers, subscribers and the consumer.
NextLifecycle ==
    \/ StartObserved
    \/ StopObserved
    \/ \E t \in BusTypes, cb \in Callbacks : Subscribe(t, cb)
    \/ \E t \in EmitTypes : Emit(t, "d")
    \/ \E i \in 1..MaxTasks : Dequeue(i)
    \/ \E i \in 1..MaxTasks, o \in Outcomes : Invoke(i, o, <<"none", "cb1">>)
    \/ \E a \in active, o \in {"return", "raise"} : Resume(a, o)
    \/ \E i \in 1..MaxTasks : DispatchEnd(i)

\* The ConnectionManager, its Transports and the drivers; the bus is not
\* started, so its queue holds every event the manager emitted.
NextConn ==
    \/ \E c \in 1..MaxCalls, p \in ConnectPorts : ConnectSerial(c, p)
    \/ \E c \in 1..MaxCalls, h \in ConnectHosts : ConnectTCP(c, h)
    \/ \E c \in 1..MaxCalls, ps \in SerialCandidates : AutoConnect(c, ps)
    \/ \E c \in 1..MaxCalls, hs \in TcpCandidates : ScanDone(c, hs)
    \/ \E c \in 1..MaxCalls, ok \in BOOLEAN : OpenDone(c, ok)
    \/ \E c \in 1..MaxCalls : InfoDone(c)
    \/ \E c \in 1..MaxCalls : MonitorAwaited(c)
    \/ \E c \in 1..MaxCalls : CloseDone(c)
    \/ \E c \in 1..MaxCalls : Disconnect(c)
    \/ \E t \in 1..MaxTransports : ReceivePacket(t)
    \/ \E t \in 1..MaxTransports : MonitorTick(t)

\* The public operations of the ConnectionManager called in any order and
\* overlapping, against the driver's executor calls.
NextCalls ==
    \/ \E c \in 1..MaxCalls, p \in ConnectPorts : ConnectSerial(c, p)
    \/ \E c \in 1..MaxCalls, h \in ConnectHosts : ConnectTCP(c, h)
    \/ \E c \in 1..MaxCalls, ps \in SerialCandidates : AutoConnect(c, ps)
    \/ \E c \in 1..MaxCalls, hs \in TcpCandidates : ScanDone(c, hs)
    \/ \E c \in 1..MaxCalls, ok \in BOOLEAN : OpenDone(c, ok)
    \/ \E c \in 1..MaxCalls : InfoDone(c)
    \/ \E c \in 1..MaxCalls : MonitorAwaited(c)
    \/ \E c \in 1..MaxCalls : CloseDone(c)
    \/ \E c \in 1..MaxCalls : Disconnect(c)
    \/ \E c \in 1..MaxCalls : SendMessage(c)
    \/ \E c \in 1..MaxCalls, ok \in BOOLEAN : SendDone(c, ok)
    \/ \E c \in 1..MaxCalls : GetNodeInfo(c)
    \/ \E c \in 1..MaxCalls, ok \in BOOLEAN : NodeInfoDone(c, ok)
    \/ \E c \in 1..MaxCalls : GetDeviceInfo(c)

\* One TCP session after another: connect_tcp, disconnect and send_message
\* called in any order and overlapping.
NextSession ==
    \/ \E c \in 1..MaxCalls, h \in ConnectHosts : ConnectTCP(c, h)
    \/ \E c \in 1..MaxCalls, ok \in BOOLEAN : OpenDone(c, ok)
    \/ \E c \in 1..MaxCalls : InfoDone(c)
    \/ \E c \in 1..MaxCalls : MonitorAwaited(c)
    \/ \E c \in 1..MaxCalls : CloseDone(c)
    \/ \E c \in 1..MaxCalls : Disconnect(c)
    \/ \E c \in 1..MaxCalls : SendMessage(c)
    \/ \E c \in 1..MaxCalls, ok \in BOOLEAN : SendDone(c, ok)

\* The manager's TCP and serial sessions with the monitor task of each
\* Transport, the handle-loss scenario granted.
NextWatch ==
    \/ \E c \in 1..MaxCalls, p \in DevicePorts : ConnectSerial(c, p)
    \/ \E c \in 1..MaxCalls, h \in ConnectHosts : ConnectTCP(c, h)
    \/ \E c \in 1..MaxCalls, ok \in BOOLEAN : OpenDone(c, ok)
    \/ \E c \in 1..MaxCalls : InfoDone(c)
    \/ \E c \in 1..MaxCalls : MonitorAwaited(c)
    \/ \E c \in 1..MaxCalls : CloseDone(c)
    \/ \E c \in 1..MaxCalls : Disconnect(c)
    \/ \E t \in 1..MaxTransports : MonitorTick(t)
    \/ \E t \in 1..MaxTransports : HandleLost(t)

\* Transports of both kinds constructed and called directly.
NextTransport ==
    \/ \E k \in {"serial", "tcp"} : Construct(k, IF k = "tcp" THEN TcpHosts[1] ELSE "/dev/ttyUSB0")
    \/ \E c \in 1..MaxCalls, t \in 1..MaxTransports : TConnect(c, t)
    \/ \E c \in 1..MaxCalls, ok \in BOOLEAN : TOpenDone(c, ok)
    \/ \E c \in 1..MaxCalls : TInfoDone(c)
    \/ \E c \in 1..MaxCalls, t \in 1..MaxTransports : TDisconnect(c, t)
    \/ \E c \in 1..MaxCalls : MonitorAwaited(c)
    \/ \E c \in 1..MaxCalls : CloseDone(c)
    \/ \E c \in 1..MaxCalls, t \in 1..MaxTransports : TSend(c, t)
    \/ \E c \in 1..MaxCalls, ok \in BOOLEAN : TSendDone(c, ok)

\* The same, with the handle-loss scenario granted.
NextMonitor ==
    \/ NextConn
    \/ \E t \in 1..MaxTransports : HandleLost(t)

\* The reconnection policy, with the status handler run as the Transport's
\* status callback is meant to run it.
NextReconnect ==
    \/ \E c \in 1..MaxCalls, h \in ConnectHosts : ConnectTCP(c, h)
    \/ \E c \in 1..MaxCalls, ok \in BOOLEAN : OpenDone(c, ok)
    \/ \E c \in 1..MaxCalls : InfoDone(c)
    \/ \E c \in 1..MaxCalls : MonitorAwaited(c)
    \/ \E c \in 1..MaxCalls : CloseDone(c)
    \/ \E c \in 1..MaxCalls : Disconnect(c)
    \/ \E c \in 1..MaxCalls : DisconnectResumes(c)
    \/ \E st \in {"failed", "disconnected"} : StatusChanged(st)
    \/ ReconnectStep
    \/ \E c \in 1..MaxCalls : ReconnectWake(c, <<>>)

\* The retry chain of the reconnect task: the reconnection policy with
\* set_auto_reconnect() called by the application.
NextRetry ==
    \/ \E c \in DOMAIN calls, h \in ConnectHosts : ConnectTCP(c, h)
    \/ \E c \in DOMAIN calls, ok \in BOOLEAN : OpenDone(c, ok)
    \/ \E c \in DOMAIN calls : InfoDone(c)
    \/ \E c \in DOMAIN calls : MonitorAwaited(c)
    \/ \E c \in DOMAIN calls : CloseDone(c)
    \/ \E c \in DOMAIN calls : Disconnect(c)
    \/ \E c \in DOMAIN calls : DisconnectResumes(c)
    \/ \E enabled \in BOOLEAN : set_auto_reconnect(enabled)
    \/ StatusChanged("failed")
    \/ ReconnectStep
    \/ \E c \in DOMAIN calls : ReconnectWake(c, <<>>)

\* The reconnection policy over several FAILED notifications, with
\* set_auto_reconnect() called by the application.
NextPolicy ==
    \/ \E c \in DOMAIN calls, h \in ConnectHosts : ConnectTCP(c, h)
    \/ \E c \in DOMAIN calls, ok \in BOOLEAN : OpenDone(c, ok)
    \/ \E c \in DOMAIN calls : InfoDone(c)
    \/ \E c \in DOMAIN calls : MonitorAwaited(c)
    \/ \E c \in DOMAIN calls : CloseDone(c)
    \/ \E c \in DOMAIN calls : Disconnect(c)
    \/ \E c \in DOMAIN calls : DisconnectResumes(c)
    \/ \E enabled \in BOOLEAN : set_auto_reconnect(enabled)
    \/ FailedNotified
    \/ ReconnectStep
    \/ \E c \in DOMAIN calls : ReconnectWake(c, <<>>)

\* -------------------------------------------- AutoDetector.find_tcp_devices
\* Up to "await asyncio.gather(...)": the probes are created, one per suffix.
find_tcp_devices(network_range, world) ==
    /\ scan.pc = "idle"
    /\ scan' = [pc |-> "gather", network_range |-> network_range, world |-> world,
                devices |-> <<>>]
    /\ UNCHANGED scanrest

\* gather() returns: the devices are collected and returned.
GatherDone ==
    /\ scan.pc = "gather"
    /\ scan' = [scan EXCEPT !.pc = "done",
                            !.devices = Devices(scan.network_range,
                                                Gathered(scan.network_range, scan.world))]
    /\ UNCHANGED scanrest

\* find_tcp_devices called on a network in which a few addresses answer.
NextScan ==
    \/ \E n \in NetworkRanges, w \in Worlds : find_tcp_devices(n, w)
    \/ GatherDone

\* The payload the application gives an event: whether the bus had ever been
\* started when it was emitted.
Stamp == IF processor_task = NoTask THEN "before_start" ELSE "after_start"

\* The bus from its construction on: events are emitted and callbacks
\* subscribed before and after the first start().
NextStartup ==
    \/ Start
    \/ \E t \in BusTypes, cb \in Callbacks : Subscribe(t, cb)
    \/ \E t \in BusTypes, cb \in Callbacks : Unsubscribe(t, cb)
    \/ \E t \in EmitTypes : Emit(t, Stamp)
    \/ \E i \in 1..MaxTasks : Dequeue(i)
    \/ \E i \in 1..MaxTasks, o \in Outcomes : Invoke(i, o, <<"none", "cb1">>)
    \/ \E a \in active, o \in {"return", "raise"} : Resume(a, o)
    \/ \E i \in 1..MaxTasks : DispatchEnd(i)

\* Connect calls that overlap one another while Transports are replaced.
NextReplace ==
    \/ \E c \in DOMAIN calls, h \in ConnectHosts : ConnectTCP(c, h)
    \/ \E c \in DOMAIN calls, ok \in BOOLEAN : OpenDone(c, ok)
    \/ \E c \in DOMAIN calls : InfoDone(c)
    \/ \E c \in DOMAIN calls : MonitorAwaited(c)
    \/ \E c \in DOMAIN calls : CloseDone(c)

\* The three connect methods called in any order and overlapping.
NextConnects ==
    \/ \E c \in DOMAIN calls, p \in ConnectPorts : ConnectSerial(c, p)
    \/ \E c \in DOMAIN calls, h \in ConnectHosts : ConnectTCP(c, h)
    \/ \E c \in DOMAIN calls, ps \in SerialCandidates : AutoConnect(c, ps)
    \/ \E c \in DOMAIN calls, hs \in TcpCandidates : ScanDone(c, hs)
    \/ \E c \in DOMAIN calls, ok \in BOOLEAN : OpenDone(c, ok)
    \/ \E c \in DOMAIN calls : InfoDone(c)
    \/ \E c \in DOMAIN calls : MonitorAwaited(c)
    \/ \E c \in DOMAIN calls : CloseDone(c)

Next ==
    \/ NextPolicy \/ NextReplace \/ NextConnects \/ NextScan \/ NextStartup
    \/ NextBus \/ NextLifecycle \/ NextMonitor \/ NextReconnect \/ NextCalls
    \/ NextSession \/ NextTransport \/ NextWatch \/ NextRetry

Spec == Init /\ [][Next]_vars

SpecBus == Init /\ [][NextBus]_vars

SpecLifecycle == Init /\ [][NextLifecycle]_vars

SpecConn == Init /\ [][NextConn]_vars

SpecReconnect == Init /\ [][NextReconnect]_vars

SpecRetry == InitRetry /\ [][NextRetry]_vars

SpecPolicy == InitPolicy /\ [][NextPolicy]_vars

SpecReplace == InitReplace /\ [][NextReplace]_vars

SpecConnects == Init /\ [][NextConnects]_vars

SpecScan == Init /\ [][NextScan]_vars

SpecStartup == Init /\ [][NextStartup]_vars
SpecCalls == Init /\ [][NextCalls]_vars
SpecSession == Init /\ [][NextSession]_vars
SpecTransport == Init /\ [][NextTransport]_vars

\* The steps the event loop takes by itself: an executor call or an awaited
\* task completes, a monitor's sleep ends.  Calls by the application, packets
\* and the loss of a session are the environment's.
Scheduled ==
    \/ \E c \in 1..MaxCalls, hs \in TcpCandidates : ScanDone(c, hs)
    \/ \E c \in 1..MaxCalls, ok \in BOOLEAN : OpenDone(c, ok)
    \/ \E c \in 1..MaxCalls : InfoDone(c)
    \/ \E c \in 1..MaxCalls : MonitorAwaited(c)
    \/ \E c \in 1..MaxCalls : CloseDone(c)
    \/ \E t \in 1..MaxTransports : MonitorTick(t)

\* Every coroutine and task that can take a step eventually takes one.
SpecMonitor == Init /\ [][NextMonitor]_vars /\ WF_vars(Scheduled)

\* The event loop takes its steps, and the monitor task of each Transport that
\* has one is scheduled.
SpecWatch ==
    /\ Init /\ [][NextWatch]_vars
    /\ WF_vars(Scheduled)
    /\ \A t \in 1..MaxTransports : WF_vars(MonitorTick(t))

\* ===================================================================== claims

\* C3: FIFO delivery. A subscriber is invoked for the events of a type it is
\* subscribed to in the order in which emit() enqueued them.
C3_FifoDelivery ==
    \A j, k \in 1..Len(delivered) :
        (j < k /\ delivered[j].cb = delivered[k].cb)
            => delivered[j].seq <= delivered[k].seq

C3_Witness ==
    \E j, k \in 1..Len(delivered) :
        /\ j < k
        /\ delivered[j].cb = delivered[k].cb
        /\ delivered[j].seq < delivered[k].seq

\* The for loop of _handle_event in task i has run out of entries.
LoopExhausted(i) ==
    /\ tasks[i].pc = "dispatching"
    /\ tasks[i].idx > Len(subscribers[tasks[i].ev.type])

\* C4: after Subscribe calls and an Emit (no Unsubscribe, no Stop), when the
\* dispatch of the event is over every subscription of its type has been
\* invoked exactly once with that event, in subscription order: the callbacks
\* invoked with the event are the subscriber list, and while no unsubscribe
\* has removed an entry the list is the subscribe() calls in call order.
C4_InvokedOnceInOrder ==
    /\ \A i \in 1..MaxTasks :
          (LoopExhausted(i) /\ tasks[i].removed = {})
              => Calls(tasks[i].ev.seq) = subscribers[tasks[i].ev.type]
    /\ \A t \in EventType : ~unsub_seen[t] => subscribers[t] = sub_log[t]

C4_Witness ==
    \E i \in 1..MaxTasks :
        /\ LoopExhausted(i)
        /\ ~unsub_seen[tasks[i].ev.type]
        /\ Calls(tasks[i].ev.seq) = <<"cb2", "cb1">>
        /\ sub_log[tasks[i].ev.type] = <<"cb2", "cb1">>

\* C5: no overlap of per-event dispatch. While a callback invoked with an
\* event has not finished, no event enqueued after that event has been
\* dequeued.
C5_NoOverlap ==
    \A a \in active : \A n \in (a.seq + 1)..emitted : n \in QueueSeqs

C5_Witness ==
    \E a \in active :
        /\ a.seq < emitted
        /\ tasks[a.task].pc = "suspended"
        /\ running

\* C6: a callback that raises does not prevent the remaining callbacks of the
\* same event from being invoked, and does not stop the consumer loop.
C6_RaiseIsContained ==
    /\ \A i \in 1..MaxTasks :
          (LoopExhausted(i) /\ tasks[i].raised > 0 /\ tasks[i].removed = {})
              => Len(Calls(tasks[i].ev.seq)) = Len(subscribers[tasks[i].ev.type])
    /\ \A i \in 1..MaxTasks :
          (tasks[i].pc \in {"dispatching", "suspended"} /\ tasks[i].raised > 0)
              => /\ running
                 /\ processor_task = i
    /\ running => (processor_task # NoTask /\ Alive(processor_task))

C6_Witness ==
    \E i \in 1..MaxTasks :
        /\ LoopExhausted(i)
        /\ tasks[i].raised = 1
        /\ tasks[i].removed = {}
        /\ Len(Calls(tasks[i].ev.seq)) = 2
        /\ tasks[i].ev.seq = 2

\* C7: subscribe/unsubscribe during the dispatch of an event does not corrupt
\* the iteration: a callback subscribed when the dispatch began, and neither
\* unsubscribed nor subscribed again during it, has been invoked once per
\* subscription when the dispatch is over.
C7_MutationSafeDispatch ==
    \A i \in 1..MaxTasks :
        LoopExhausted(i) =>
            \A cb \in Range(tasks[i].snapshot) \ (tasks[i].removed \cup tasks[i].added) :
                Count(Calls(tasks[i].ev.seq), cb) = Count(tasks[i].snapshot, cb)

AtMostOneLoop == Cardinality({i \in 1..MaxTasks : Alive(i)}) <= 1

C9_StartStopIdempotent ==
    /\ []AtMostOneLoop
    /\ [][(running /\ running') =>
            /\ processor_task' = processor_task
            /\ \A i \in 1..MaxTasks : tasks[i].pc = "none" => tasks'[i].pc = "none"]_vars
    /\ [][(~running /\ ~running') =>
            /\ processor_task' = processor_task
            /\ tasks' = tasks]_vars
    /\ [][noop_calls' # noop_calls => UNCHANGED busvars]_vars

C9_Witness ==
    /\ noop_calls = {"start", "stop"}
    /\ ~running
    /\ \E i \in 1..MaxTasks : tasks[i].pc = "cancelled"

\* ------------------------------------------------------------------------ C1
\* The Transports that hold an open driver session with status Connected.
Holding == {t \in 1..MaxTransports :
               transports[t].handle /\ transports[t].status = "connected"}

\* C1: exclusive ownership.  Across any sequence of connect calls, made one
\* after the other, the active Transport is disconnected before the new one
\* connects: at no point do two Transports hold an open driver session with
\* status Connected.
C1_ExclusiveOwnership == ~overlapped => Cardinality(Holding) <= 1

\* ------------------------------------------------------------------------ C2
\* C2: in every reachable state is_connected is true if and only if the active
\* Transport is non-null and its status equals Connected.
C2_IsConnectedIff ==
    is_connected <=>
        \E t \in 1..MaxTransports : interface = t /\ transports[t].status = "connected"

\* A connect_tcp call has returned True and its Transport is the active one,
\* connected.
C2_Witness ==
    /\ is_connected
    /\ connection_params.type = "tcp"
    /\ \E c \in 1..MaxCalls : calls[c].pc = "done" /\ calls[c].result = "true"

\* ----------------------------------------------------------------------- C10
\* The packets the active Transport's receive hook reported, in receive order.
ReportedByActive ==
    LET sel == SelectSeq(received, LAMBDA r : r.on_active)
    IN  [k \in 1..Len(sel) |-> sel[k].packet]

\* The packets of the PACKET_RECEIVED events emitted, in emission order.
PacketEvents ==
    LET sel == SelectSeq(event_queue, LAMBDA e : e.type = "packet_received")
    IN  [k \in 1..Len(sel) |-> sel[k].data]

\* C10: every inbound packet reported by the active Transport's driver receive
\* hook is re-emitted by the ConnectionManager as exactly one PACKET_RECEIVED
\* event on the bus, in receive order.
C10_PacketsReEmitted == PacketEvents = ReportedByActive

\* ----------------------------------------------------------------------- C11
\* The monitor of the active Transport t has found the handle lost and set
\* status FAILED, with auto-reconnect enabled.
LossDetected(t) ==
    /\ interface = t
    /\ transports[t].status = "failed"
    /\ transports[t].monitor = "done"
    /\ ~transports[t].handle
    /\ auto_reconnect

\* The DEVICE_STATUS_CHANGED events emitted with the given status.
StatusEvents(st) ==
    {k \in 1..Len(event_queue) :
        event_queue[k].type = "device_status_changed" /\ event_queue[k].data = st}

\* C11: when the monitoring task of the active Connected Transport detects
\* handle loss while auto-reconnect is enabled, DEVICE_STATUS_CHANGED{failed}
\* is emitted and a reconnect task for the recorded parameters is started.
C11_LossLeadsToReconnect ==
    \A t \in 1..MaxTransports :
        LossDetected(t) ~> (StatusEvents("failed") # {} /\ reconnect_task # "none")

\* ----------------------------------------------------------------------- C12
\* A disconnect() call has returned.
DisconnectReturned ==
    \E c \in 1..MaxCalls : calls[c].op = "disconnect" /\ calls[c].pc = "done"

\* The calls the reconnect task has made.
ReconnectCalls == {k \in 1..MaxCalls : calls[k].owner = "reconnect"}

DisconnectReturns(c) ==
    /\ calls[c].pc # "done"
    /\ calls'[c].pc = "done"
    /\ calls'[c].op = "disconnect"

\* The Transport the disconnect() call c tears down: the one it is suspended
\* in, or the active one when it runs through without suspending.
TornDown(c) ==
    IF calls[c].pc \in {"dc_monitor", "dc_close"} THEN calls[c].old ELSE interface

DisconnectCalled(c) ==
    /\ calls[c].pc = "idle"
    /\ calls'[c].op = "disconnect"

\* Nothing is connected: no active Transport and no reconnect task.
NothingConnected == interface = NoTransport /\ reconnect_task = "none"

\* The events of type t the manager has emitted.
EventsOfType(q, t) == SelectSeq(q, LAMBDA e : e.type = t)

\* C14: disconnect() called with nothing connected returns without an error
\* and emits exactly one event, CONNECTION_LOST with reason "user_requested";
\* no Transport is touched.
C14_DisconnectWhenIdle ==
    [][\A c \in 1..MaxCalls :
          DisconnectCalled(c) /\ NothingConnected =>
              /\ calls'[c].pc = "done"
              /\ calls'[c].result = "none"
              /\ event_queue' =
                    Append(event_queue, Event("connection_lost", "user_requested", emitted + 1))
              /\ transports' = transports
              /\ interface' = NoTransport]_vars

\* disconnect() was the first call made and has returned: one CONNECTION_LOST
\* is on the bus and no Transport was ever constructed.
C14_Witness ==
    /\ calls[1] = DoneCall("disconnect", "none")
    /\ calls[2].pc = "idle"
    /\ \A t \in 1..MaxTransports : transports[t] = NoTransportRec
    /\ Len(EventsOfType(event_queue, "connection_lost")) = 1
    /\ Len(event_queue) = 1

\* ----------------------------------------------------------------------- C15
\* disconnect() is called as call c right after a disconnect() call returned,
\* every call so far having been made with no other call in flight.
SecondDisconnect(c) ==
    /\ c > 1
    /\ DisconnectCalled(c)
    /\ calls[c - 1] = DoneCall("disconnect", "none")
    /\ ~Overlaps

\* C15: a second disconnect() in a row returns without an error, disconnects
\* or closes no Transport again and leaves the manager state (no active
\* Transport, no parameters, auto-reconnect off) unchanged.
C15_DisconnectTwice ==
    [][\A c \in 1..MaxCalls :
          SecondDisconnect(c) =>
              /\ calls'[c] = DoneCall("disconnect", "none")
              /\ transports' = transports
              /\ unawaited' = unawaited
              /\ interface' = NoTransport /\ interface = NoTransport
              /\ connection_params' = NoParams /\ connection_params = NoParams
              /\ ~auto_reconnect' /\ ~auto_reconnect
              /\ reconnect_task' = reconnect_task]_vars

\* connect_tcp returned True, then disconnect() tore the Transport down, then
\* disconnect() was called again and returned.
C15_Witness ==
    /\ calls[1] = DoneCall("connect_tcp", "true")
    /\ calls[2] = DoneCall("disconnect", "none")
    /\ calls[3] = DoneCall("disconnect", "none")
    /\ ~overlapped
    /\ transports[1].status = "disconnected"
    /\ Len(EventsOfType(event_queue, "connection_lost")) = 2

\* ----------------------------------------------------------------------- C16
\* send_message is called as call c in this step.
SendCalled(c) ==
    /\ calls[c].pc = "idle"
    /\ calls'[c].op = "send_message"

\* The manager is not connected: no active Transport, or one whose status is
\* not Connected.
NotConnected == interface = NoTransport \/ transports[interface].status # "connected"

\* C16: send_message called while not connected returns False and emits
\* PACKET_FAILED with error 'Not connected'; it never enters a Transport
\* operation and no Transport changes.
C16_SendWhenNotConnected ==
    [][\A c \in 1..MaxCalls :
          SendCalled(c) /\ NotConnected =>
              /\ calls'[c] = DoneCall("send_message", "false")
              /\ event_queue' =
                    Append(event_queue, Event("packet_failed", "Not connected", emitted + 1))
              /\ transports' = transports
              /\ interface' = interface]_vars

\* send_message has returned False with 'Not connected' on the bus while a
\* connect_tcp call holds an open driver session that is not installed yet.
C16_Witness ==
    /\ \E c \in 1..MaxCalls : calls[c] = DoneCall("send_message", "false")
    /\ \E c \in 1..MaxCalls : calls[c].op = "connect_tcp" /\ calls[c].pc = "info"
    /\ interface = NoTransport
    /\ \E k \in 1..Len(event_queue) :
          event_queue[k].type = "packet_failed" /\ event_queue[k].data = "Not connected"

\* ----------------------------------------------------------------------- C17
\* The send_message call c returns in this step.
SendReturns(c) ==
    /\ calls[c].pc # "done"
    /\ calls'[c].pc = "done"
    /\ calls'[c].op = "send_message"

\* The PACKET_SENT and PACKET_FAILED events on the bus.
SendEvents(q) == SelectSeq(q, LAMBDA e : e.type \in {"packet_sent", "packet_failed"})

\* C17: every send_message call emits exactly one of PACKET_SENT and
\* PACKET_FAILED, when it returns and at no other moment, and returns True if
\* and only if the event is PACKET_SENT, which takes the Transport's send to
\* have run.
C17_SendEmitsOne ==
    [][/\ \A c \in 1..MaxCalls :
            SendReturns(c) =>
                /\ Len(event_queue') = Len(event_queue) + 1
                /\ LET e == event_queue'[Len(event_queue')]
                   IN  /\ e.type \in {"packet_sent", "packet_failed"}
                       /\ calls'[c].result \in {"true", "false"}
                       /\ calls'[c].result = "true" <=> e.type = "packet_sent"
                       /\ e.type = "packet_sent" => calls[c].pc = "send"
       /\ (\A c \in 1..MaxCalls : ~SendReturns(c)) =>
              SendEvents(event_queue') = SendEvents(event_queue)]_vars

\* Two send_message calls have returned on a connection, one True with
\* PACKET_SENT and one False with PACKET_FAILED 'Send failed'.
C17_Witness ==
    /\ \E c \in 1..MaxCalls : calls[c] = DoneCall("send_message", "true")
    /\ \E c \in 1..MaxCalls : calls[c] = DoneCall("send_message", "false")
    /\ Len(EventsOfType(event_queue, "packet_sent")) = 1
    /\ \E k \in 1..Len(event_queue) :
          event_queue[k].type = "packet_failed" /\ event_queue[k].data = "Send failed"
    /\ Len(SendEvents(event_queue)) = 2

\* ----------------------------------------------------------------------- C18
ConnectOps == {"connect_serial", "connect_tcp", "auto_connect"}

\* The connect call c returns in this step.
ConnectReturns(c) ==
    /\ calls[c].pc # "done"
    /\ calls'[c].pc = "done"
    /\ calls'[c].op \in ConnectOps

\* The Transport the connect call c made last in this step or before.
ConnectedBy(c) ==
    IF calls[c].tr # NoTransport THEN calls[c].tr
    ELSE CHOOSE t \in 1..MaxTransports :
            transports[t].kind = "none" /\ transports'[t].kind # "none"

\* The call does not return from a driver open that raised or from a scan
\* that found no device: its TCP session opened, or it addressed a serial port
\* on which the driver would open.
OpenSucceeds(c) ==
    /\ calls[c].pc \notin {"open", "scan"}
    /\ transports'[ConnectedBy(c)].kind = "serial" =>
          transports'[ConnectedBy(c)].target \in DevicePorts

\* C18: a connect call whose driver open succeeds returns True, its Transport
\* is the active one with status Connected, the parameters (kind and target)
\* are recorded and the call emits CONNECTION_ESTABLISHED once and no
\* CONNECTION_FAILED.
C18_ConnectSucceeds ==
    [][\A c \in 1..MaxCalls :
          ConnectReturns(c) /\ OpenSucceeds(c) =>
              /\ calls'[c].result = "true"
              /\ interface' = ConnectedBy(c)
              /\ transports'[ConnectedBy(c)].status = "connected"
              /\ connection_params' # NoParams
              /\ connection_params'.type \in {"auto", transports'[ConnectedBy(c)].kind}
              /\ Len(event_queue') = Len(event_queue) + 1
              /\ event_queue'[Len(event_queue')].type = "connection_established"]_vars

\* ----------------------------------------------------------------------- C19
\* The connect_serial call c returns in this step.
ConnectSerialReturns(c) ==
    /\ ConnectReturns(c)
    /\ calls'[c].op = "connect_serial"

\* C19: connect_serial on a port whose driver open raises returns False and
\* emits exactly one event, CONNECTION_FAILED carrying an error string, and no
\* CONNECTION_ESTABLISHED; the status of its Transport is never Connected and
\* the manager's active Transport is left as it was.
C19_ConnectSerialFails ==
    /\ [](\A t \in 1..MaxTransports :
             transports[t].kind = "serial" /\ transports[t].target \notin DevicePorts =>
                 transports[t].status # "connected" /\ interface # t)
    /\ [][\A c \in 1..MaxCalls :
             ConnectSerialReturns(c) /\ transports'[ConnectedBy(c)].target \notin DevicePorts =>
                 /\ calls'[c].result = "false"
                 /\ transports'[ConnectedBy(c)].kind = "serial"
                 /\ transports'[ConnectedBy(c)].status = "failed"
                 /\ Len(event_queue') = Len(event_queue) + 1
                 /\ event_queue'[Len(event_queue')].type = "connection_failed"
                 /\ event_queue'[Len(event_queue')].data # ""
                 /\ interface' = interface]_vars

\* connect_serial on a port without device has returned False: its Transport is Failed, one
\* CONNECTION_FAILED is on the bus and nothing is installed.
C19_Witness ==
    /\ calls[1] = DoneCall("connect_serial", "false")
    /\ calls[2].pc = "idle"
    /\ transports[1].kind = "serial" /\ transports[1].status = "failed"
    /\ transports[1].target \notin DevicePorts
    /\ ~transports[1].handle
    /\ interface = NoTransport
    /\ Len(EventsOfType(event_queue, "connection_failed")) = 1
    /\ Len(event_queue) = 1

\* ----------------------------------------------------------------------- C20
PublicOps == ConnectOps \cup {"disconnect", "send_message", "get_node_info",
                              "get_device_info"}

\* The call c of a public operation returns to its caller in this step.
CallReturns(c) ==
    /\ calls[c].pc # "done"
    /\ calls'[c].pc = "done"
    /\ calls'[c].op \in PublicOps

\* The call c returns a failure: False, or the empty mapping get_node_info
\* returns when reading the driver's node table raised.
Failed(c) ==
    \/ calls'[c].result = "false"
    \/ calls[c].pc = "nodes" /\ calls'[c].result = "empty"

\* The step emits exactly one event, of one of the given types.
EmitsOne(types) ==
    /\ Len(event_queue') = Len(event_queue) + 1
    /\ event_queue'[Len(event_queue')].type \in types

\* C20 as stated: no public operation propagates an error to its caller, and
\* every failure surfaces as a false or empty return plus an emitted *_FAILED
\* or *_LOST event.
C20_FailureEmitsEvent ==
    [][\A c \in 1..MaxCalls :
          CallReturns(c) =>
              /\ calls'[c].result # "raised"
              /\ Failed(c) =>
                    EmitsOne({"connection_failed", "packet_failed", "connection_lost"})]_vars

\* C20, amended: no public operation propagates an error to its caller.  A
\* failed connect returns False and emits CONNECTION_FAILED, a failed
\* send_message returns False and emits PACKET_FAILED, disconnect emits
\* CONNECTION_LOST; a failure inside get_node_info surfaces only as the empty
\* mapping, with no event, and get_device_info emits nothing either.
C20_NoErrorPropagates ==
    [][\A c \in 1..MaxCalls :
          CallReturns(c) =>
              /\ calls'[c].result # "raised"
              /\ calls'[c].op \in ConnectOps =>
                    /\ calls'[c].result \in {"true", "false"}
                    /\ calls'[c].result = "false" => EmitsOne({"connection_failed"})
              /\ calls'[c].op = "send_message" =>
                    /\ calls'[c].result \in {"true", "false"}
                    /\ calls'[c].result = "false" => EmitsOne({"packet_failed"})
              /\ calls'[c].op = "disconnect" =>
                    /\ calls'[c].result = "none"
                    /\ EmitsOne({"connection_lost"})
              /\ calls'[c].op = "get_node_info" =>
                    /\ calls'[c].result \in {"nodes", "empty"}
                    /\ event_queue' = event_queue
              /\ calls'[c].op = "get_device_info" =>
                    /\ calls'[c].result \in {"info", "empty"}
                    /\ event_queue' = event_queue]_vars

\* With a connection up and no call overlapping another, get_node_info was
\* called, the driver failed and the call returned the empty mapping: the only
\* event on the bus is the CONNECTION_ESTABLISHED of the connect.
C20_Witness ==
    /\ calls[1] = DoneCall("connect_tcp", "true")
    /\ calls[2] = DoneCall("get_node_info", "empty")
    /\ calls[3].pc = "idle"
    /\ ~overlapped
    /\ is_connected /\ transports[interface].handle
    /\ Len(event_queue) = 1

\* ------------------------------------------------------------------------ C21
\* The step in which call c of method op, made directly on a Transport, ends.
TransportCallEnds(c, op) ==
    calls[c].pc # "done" /\ calls'[c].pc = "done" /\ calls'[c].op = op

\* C21: Transport.connect(), serial or TCP, never raises to its caller: it
\* returns True with the Transport's status Connected, or False with the
\* status Failed.
C21_ConnectNeverRaises ==
    [][\A c \in 1..MaxCalls :
          TransportCallEnds(c, "t_connect") =>
              \/ /\ calls'[c].result = "true"
                 /\ transports'[calls'[c].tr].status = "connected"
              \/ /\ calls'[c].result = "false"
                 /\ transports'[calls'[c].tr].status = "failed"]_vars

\* ------------------------------------------------------------------------ C22
\* C22: Transport.disconnect(), serial or TCP, called in any status, completes
\* without raising and leaves the Transport Disconnected, without driver
\* session and with its monitor task terminated.
C22_DisconnectNeverRaises ==
    [][\A c \in 1..MaxCalls :
          TransportCallEnds(c, "t_disconnect") =>
              /\ calls'[c].result = "none"
              /\ transports'[calls'[c].tr].status = "disconnected"
              /\ ~transports'[calls'[c].tr].handle
              /\ transports'[calls'[c].tr].monitor # "running"]_vars

\* ------------------------------------------------------------------------ C23
\* The step in which send_message() is called directly on a Transport.
TransportSendCalled(c) == calls[c].pc = "idle" /\ calls'[c].op = "t_send"

\* C23: Transport.send_message() called while the status is not Connected or
\* there is no driver session returns False at once, the driver not invoked;
\* True is returned only by a call that invoked the driver; the call never
\* raises and no step of it changes the Transport.
C23_SendMessageGuard ==
    [][\A c \in 1..MaxCalls :
          /\ TransportSendCalled(c) =>
                /\ transports' = transports
                /\ LET tr == transports[calls'[c].tr]
                   IN  IF tr.status # "connected" \/ ~tr.handle
                       THEN calls'[c].pc = "done" /\ calls'[c].result = "false"
                       ELSE calls'[c].pc = "t_send"
          /\ TransportCallEnds(c, "t_send") =>
                /\ transports' = transports
                /\ calls'[c].result \in {"true", "false"}
                /\ calls'[c].result = "true" => calls[c].pc = "t_send"]_vars

\* A send on a Connected Transport returned True, and a send on a Transport
\* whose connect() had not finished returned False.
C23_Witness ==
    /\ \E c \in 1..MaxCalls : calls[c] = [DoneCall("t_send", "true") EXCEPT !.tr = 1]
    /\ \E c \in 1..MaxCalls : calls[c] = [DoneCall("t_send", "false") EXCEPT !.tr = 2]
    /\ transports[1].kind = "tcp" /\ transports[1].status = "connected"
    /\ transports[2].kind = "serial"

\* ------------------------------------------------------------------------ C24
\* The statuses the callback of a Transport was called with have no two equal
\* neighbours.
NoRepeat(log) == \A i \in 1..(Len(log) - 1) : log[i] # log[i + 1]

\* C24: the status-change callback of a Transport is never called twice in a
\* row with the same status: with a callback registered, a step calls it once
\* for every change of the status, with the new status, and not at all when
\* the status stays as it is.
C24_CallbackOncePerChange ==
    /\ [](\A t \in 1..MaxTransports : NoRepeat(transports[t].notified))
    /\ [][\A t \in 1..MaxTransports :
             transports[t].connection_callback =>
                 /\ Len(transports'[t].notified) - Len(transports[t].notified)
                        = Len(transports'[t].trail) - Len(transports[t].trail)
                 /\ transports'[t].status # transports[t].status =>
                        transports'[t].notified
                            = Append(transports[t].notified, transports'[t].status)]_vars

\* Two overlapping disconnect() calls both set the installed Transport
\* Disconnected; its callback was called once.
C24_Witness ==
    /\ calls[1] = DoneCall("connect_tcp", "true")
    /\ calls[2] = DoneCall("disconnect", "none")
    /\ calls[3] = DoneCall("disconnect", "none")
    /\ overlapped
    /\ transports[1].trail = <<"connecting", "connected", "disconnected">>
    /\ transports[1].notified = <<"disconnected">>

\* ------------------------------------------------------------------------ C25
\* The status changes the state machine of a Transport allows.
AllowedTransitions ==
    {<<"disconnected", "connecting">>, <<"connecting", "connected">>,
     <<"connecting", "failed">>, <<"connected", "failed">>,
     <<"failed", "reconnecting">>, <<"reconnecting", "connecting">>}
        \cup {<<st, "disconnected">> : st \in ConnectionStatus}

\* The statuses a Transport has had, from its construction on.
History(t) == <<"disconnected">> \o transports[t].trail

\* C25: as the ConnectionManager uses its Transports, every change of a
\* Transport's status is one of the allowed transitions; Connected is entered
\* from Connecting only.
C25_StatusTransitions ==
    \A t \in 1..MaxTransports :
        \A i \in 1..(Len(History(t)) - 1) :
            /\ <<History(t)[i], History(t)[i + 1]>> \in AllowedTransitions
            /\ History(t)[i + 1] = "connected" => History(t)[i] = "connecting"

\* A Transport was connected, lost its driver session, was set Failed by its
\* monitor and then disconnected by the user.
C25_Witness ==
    \E t \in 1..MaxTransports :
        transports[t].trail = <<"connecting", "connected", "failed", "disconnected">>

\* ------------------------------------------------------------------------ C26
\* The reconnect task has begun a connect attempt: the new Transport has been
\* set Connecting.
ReconnectAttempted ==
    \E c \in 1..MaxCalls : calls[c].owner = "reconnect" /\ calls[c].op # "none"

\* DEVICE_STATUS_CHANGED with the given status has been emitted.
StatusSurfaced(st) ==
    \E k \in 1..Len(event_queue) :
        event_queue[k].type = "device_status_changed" /\ event_queue[k].data = st

\* C26: after the active Transport reported Failed with auto-reconnect on, the
\* status surfaced to consumers passes through Reconnecting before the attempt
\* of the reconnect task sets its Transport Connecting.
C26_SurfacesReconnecting ==
    ReconnectAttempted =>
        \/ StatusSurfaced("reconnecting")
        \/ \E t \in 1..MaxTransports : "reconnecting" \in Range(transports[t].trail)

\* ------------------------------------------------------------------------ C27
\* The step in which the auto_connect() call c, and with it auto_detect(), ends.
AutoDetectEnds(c) ==
    calls[c].pc # "done" /\ calls'[c].pc = "done" /\ calls'[c].op = "auto_connect"

\* The Transports constructed in this step.
Constructed == {t \in 1..MaxTransports : transports[t].kind = "none"
                                          /\ transports'[t].kind # "none"}

\* auto_detect() tries a serial candidate on which the driver's session opens.
SerialCandidateOpens ==
    \E t \in Constructed : /\ transports'[t].kind = "serial"
                           /\ transports'[t].target \in DevicePorts

\* C27: auto_detect() with a serial candidate whose driver session opens
\* returns that serial Transport, Connected, and neither scans for nor
\* connects to a TCP candidate.
C27_SerialCandidateWins ==
    [][\A c \in 1..MaxCalls :
          (calls[c].pc = "idle" /\ calls'[c].op = "auto_connect" /\ SerialCandidateOpens) =>
              /\ calls'[c].pc # "scan"
              /\ \A t \in Constructed : transports'[t].kind = "serial"
              /\ calls'[c].pc = "done" =>
                    /\ calls'[c].result = "true"
                    /\ interface' \in Constructed
                    /\ transports'[interface'].status = "connected"]_vars

\* ------------------------------------------------------------------------ C28
\* C28: auto_detect() ends by returning a Transport whose connect() succeeded,
\* or, with every candidate tried and failed or no candidate at all, by
\* returning None without raising (auto_connect then reports 'No devices
\* found'); a serial candidate that fails does not end the detection.
C28_FirstSuccessOrNone ==
    [][\A c \in 1..MaxCalls :
          AutoDetectEnds(c) =>
              \/ /\ calls'[c].result = "true"
                 /\ interface' # NoTransport
                 /\ transports'[interface'].status = "connected"
              \/ /\ calls'[c].result = "false"
                 /\ calls[c].cands = <<>>
                 /\ Len(event_queue') = Len(event_queue) + 1
                 /\ event_queue'[Len(event_queue')] =
                        Event("connection_failed", "No devices found", emitted')]_vars

\* ------------------------------------------------------------------------ C29
\* The sleep of 10 ends and the task schedules a retry.
RetryScheduled == reconnect_task = "sleep10" /\ reconnect_task' = "created"

\* C29: one Failed notification leads to at most two reconnect attempts, made
\* by at most two reconnect tasks (the one the notification created and one
\* retry), and a retry is scheduled only with auto-reconnect enabled when the
\* sleep of 10 has ended.
C29_BoundedRetryChain ==
    /\ [](chain.scheduled <= 2 /\ chain.attempts <= 2)
    /\ [][RetryScheduled => auto_reconnect]_vars

\* ------------------------------------------------------------------------ C30
\* The monitor of Transport t sleeps while the Transport is Connected and its
\* driver session is absent.
Lost(t) ==
    /\ transports[t].monitor = "running"
    /\ transports[t].status = "connected"
    /\ ~transports[t].handle

\* The monitor of t has set Failed and left its loop.
Detected(t) == transports[t].status = "failed" /\ transports[t].monitor = "done"

\* Transport.disconnect() has been called on t, by the manager's disconnect()
\* or by _set_interface replacing t: its monitor is cancelled, and the status
\* is Disconnected when the call has returned.
CancelledByDisconnect(t) ==
    /\ transports[t].monitor = "done"
    /\ \/ transports[t].status = "disconnected"
       \/ \E k \in 1..MaxCalls : InFlight(k) /\ calls[k].old = t

\* While the session is present and the status Connected a turn of the monitor
\* changes nothing; once a Transport has been Disconnected its monitor is not
\* running, and a turn of a monitor never moves a status away from
\* Disconnected.
MonitorSafety ==
    /\ [](\A t \in 1..MaxTransports :
             "disconnected" \in Range(transports[t].trail) =>
                 transports[t].monitor # "running")
    /\ [][\A t \in 1..MaxTransports :
             MonitorTick(t) =>
                 /\ (transports[t].handle /\ transports[t].status = "connected") =>
                        transports' = transports
                 /\ transports[t].status = "disconnected" =>
                        transports'[t].status = "disconnected"]_vars

\* C30 as stated: when the driver session of a Connected Transport is absent,
\* the status eventually becomes Failed and the monitor exits, whatever else
\* happens.
C30_LossLeadsToFailed ==
    /\ \A t \in 1..MaxTransports : Lost(t) ~> Detected(t)
    /\ MonitorSafety

\* C30: when the driver session of a Connected Transport is absent, its
\* monitor eventually sets Failed and exits, unless the Transport's
\* disconnect() is called first, which cancels the monitor; while the session is
\* present and the status Connected the monitor changes nothing, and no
\* monitor changes a status after disconnect().
C30_MonitorDetectsLoss ==
    /\ \A t \in 1..MaxTransports : Lost(t) ~> (Detected(t) \/ CancelledByDisconnect(t))
    /\ MonitorSafety

\* The monitor of the active Transport found the session absent, set Failed
\* and exited.
C30_Witness ==
    /\ interface # NoTransport
    /\ ~transports[interface].handle
    /\ Detected(interface)
    /\ transports[interface].trail = <<"connecting", "connected", "failed">>
    /\ transports[interface].notified = <<"failed">>

\* ------------------------------------------------------------------------ C31
\* A reconnect task is created in this step.
TaskCreated == chain'.tasks > chain.tasks

\* C31: at most one reconnect task is alive: a task is created only when the
\* task the manager holds is finished or cancelled, or by that task itself as
\* its last statement (the retry after the sleep of 10), whatever FAILED
\* notifications, retries and disconnect() calls there are.
C31_OneReconnectTask ==
    [][TaskCreated => (~ReconnectAlive \/ RetryScheduled)]_vars

\* A second FAILED notification created a second task after the attempt of
\* the first one had returned.
C31_Witness ==
    /\ chain = [scheduled |-> 1, attempts |-> 0, tasks |-> 2]
    /\ reconnect_task = "sleep5"
    /\ \E c \in DOMAIN calls : calls[c].owner = "reconnect" /\ calls[c].pc = "done"

\* ------------------------------------------------------------------------ C37
\* The step is a call of set_auto_reconnect(): nothing but the flag changes.
OnlyFlagChanges ==
    /\ calls' = calls /\ transports' = transports /\ interface' = interface
    /\ reconnect_task' = reconnect_task /\ event_queue' = event_queue

\* C37: disconnect() turns auto-reconnect off, and once it is off nothing but
\* set_auto_reconnect(True) turns it on again (no connect call does, however
\* it ends), and no reconnect task is created while it is off.
C37_DisconnectDisablesReconnect ==
    [][/\ \A c \in DOMAIN calls :
             (calls[c].pc = "idle" /\ calls'[c].op = "disconnect") => ~auto_reconnect'
       /\ (~auto_reconnect /\ auto_reconnect') => OnlyFlagChanges
       /\ TaskCreated => auto_reconnect]_vars

\* After disconnect() a connect_tcp succeeded and its Transport was reported
\* FAILED: auto-reconnect is still off and no reconnect task was created.
C37_Witness ==
    /\ calls[1] = DoneCall("disconnect", "none")
    /\ calls[2] = DoneCall("connect_tcp", "true")
    /\ ~overlapped
    /\ interface # NoTransport
    /\ StatusSurfaced("failed")
    /\ ~auto_reconnect
    /\ reconnect_task = "none" /\ chain.tasks = 0

\* ------------------------------------------------------------------------ C38
\* C38: a reconnect task whose sleep of 5 ends with auto-reconnect turned off
\* makes no attempt: it calls no connect method.
C38_DisabledTaskMakesNoAttempt ==
    [][(reconnect_task = "sleep5" /\ ~auto_reconnect) =>
           /\ chain'.attempts = chain.attempts
           /\ \A c \in DOMAIN calls : calls'[c].owner = "reconnect" => calls[c].owner = "reconnect"]_vars

\* ------------------------------------------------------------------------ C36
\* Every call made so far has completed.
Quiescent == \A c \in DOMAIN calls : ~InFlight(c)

\* Transport t is Connected or holds a driver session.
Live(t) == transports[t].status = "connected" \/ transports[t].handle

\* C36: once overlapping connect and disconnect() calls have all completed,
\* every Transport that is Connected or holds a driver session is the
\* manager's active Transport.
C36_NoOrphanedConnection ==
    Quiescent => \A t \in DOMAIN transports : Live(t) => interface = t

\* ------------------------------------------------------------------------ C32
\* Transport record tr is fully disconnected: status Disconnected, driver
\* session released, monitoring task not running.
FullyDisconnected(tr) ==
    /\ tr.status = "disconnected"
    /\ ~tr.handle
    /\ tr.monitor # "running"

\* C32: whenever the manager's active Transport reference passes from one
\* Transport to another, the previous Transport is fully disconnected when
\* the new reference is in place.
C32_PreviousFullyDisconnected ==
    [][(interface # NoTransport /\ interface' # NoTransport /\ interface' # interface)
          => FullyDisconnected(transports'[interface])]_vars

\* ------------------------------------------------------------------------ C35
\* Call c takes this step as a connect call that has not connected a
\* Transport: it is still opening or scanning afterwards, or it returns False.
FailingStep(c) ==
    /\ calls'[c] # calls[c]
    /\ calls'[c].op \in ConnectOps
    /\ \/ calls'[c].pc \in {"open", "scan"}
       \/ calls'[c].pc = "done" /\ calls'[c].result = "false"

\* The manager's reference, the active Transport's status and driver session
\* and the stored parameters are the same after the step.
ActiveUnchanged ==
    /\ interface' = interface
    /\ connection_params' = connection_params
    /\ interface # NoTransport =>
          /\ transports'[interface].status = transports[interface].status
          /\ transports'[interface].handle = transports[interface].handle

\* C35: no step of a connect call that fails, up to and including its
\* return, changes the manager's active Transport reference, that
\* Transport's status and driver session, or the stored parameters.
C35_FailedConnectChangesNothing ==
    [][\A c \in DOMAIN calls : FailingStep(c) => ActiveUnchanged]_vars

\* connect_tcp succeeded; a later connect_tcp failed to open its session and
\* returned False: the first Transport is still active and Connected.
C35_Witness ==
    /\ calls[1] = DoneCall("connect_tcp", "true")
    /\ calls[2] = DoneCall("connect_tcp", "false")
    /\ ~overlapped
    /\ interface = 1
    /\ transports[1].status = "connected" /\ transports[1].handle
    /\ transports[2].status = "failed"
    /\ connection_params = [type |-> "tcp", host |-> transports[1].target, port |-> DefaultPort]

\* ------------------------------------------------------------------------ C33
\* Transport t is a candidate that auto_connect call c gives up in this step:
\* c was trying it, or constructs it in this step, it is not c's candidate
\* afterwards, and it never connected.
GivenUp(c, t) ==
    /\ calls'[c] # calls[c]
    /\ calls'[c].op = "auto_connect"
    /\ calls[c].tr = t \/ (transports[t].kind = "none" /\ transports'[t].kind # "none")
    /\ calls'[c].tr # t
    /\ "connected" \notin Range(transports'[t].trail)

\* The candidate holds no driver session and has no running monitoring task.
HoldsNothing(tr) == ~tr.handle /\ tr.monitor # "running"

\* C33: a candidate of auto_detect whose connect did not succeed is fully
\* disconnected (status Disconnected, no driver session, no running monitor)
\* when auto_detect goes on to the next candidate or ends.
C33_FailedCandidateDisconnected ==
    [][\A c \in DOMAIN calls, t \in DOMAIN transports :
          GivenUp(c, t) => FullyDisconnected(transports'[t])]_vars

\* The part of C33 about resources: a candidate that is given up holds no
\* driver session and has no running monitoring task.
FailedCandidateHoldsNothing ==
    [][\A c \in DOMAIN calls, t \in DOMAIN transports :
          GivenUp(c, t) => HoldsNothing(transports'[t])]_vars

\* The part of C33 about TCP candidates: they are fully disconnected.
FailedTcpCandidateDisconnected ==
    [][\A c \in DOMAIN calls, t \in DOMAIN transports :
          (GivenUp(c, t) /\ transports'[t].kind = "tcp")
              => FullyDisconnected(transports'[t])]_vars

\* ------------------------------------------------------------------------ C34
\* The suffixes the claim names.
ClaimedSuffixes == 1..254

\* The claimed suffixes at which, in network n of world w, the probe's
\* connection is accepted; and those at which it is accepted and then closed
\* without an error.
AcceptedAt(n, w) ==
    {i \in ClaimedSuffixes :
        Host(n, i) \in DOMAIN w /\ w[Host(n, i)] \in {"accepts", "resets"}}
ClosedCleanlyAt(n, w) ==
    {i \in ClaimedSuffixes : Host(n, i) \in DOMAIN w /\ w[Host(n, i)] = "accepts"}

\* devs is exactly the (host, 4403) pairs of the suffixes in S, in ascending
\* suffix order.
ReturnsExactly(devs, n, S) ==
    /\ Len(devs) = Cardinality(S)
    /\ \A k \in 1..Len(devs) :
          /\ devs[k][2] = 4403
          /\ devs[k][1][1] = n
          /\ devs[k][1][2] \in S
    /\ \A j, k \in 1..Len(devs) : j < k => devs[j][1][2] < devs[k][1][2]

NeverStarted == processor_task = NoTask

\* Every event emitted so far is in the queue, in emission order, and no
\* callback has been invoked.
AllRetained ==
    /\ delivered = <<>>
    /\ Len(event_queue) = emitted
    /\ \A k \in 1..Len(event_queue) : event_queue[k].seq = k

\* This step is a call of emit(): it appends one Event to the queue, invokes
\* no callback and leaves the consumer and the subscriber lists alone.
EmitOnlyAppends ==
    /\ Len(event_queue') = Len(event_queue) + 1
    /\ SubSeq(event_queue', 1, Len(event_queue)) = event_queue
    /\ event_queue'[Len(event_queue')].seq = emitted'
    /\ delivered' = delivered
    /\ tasks' = tasks
    /\ active' = active
    /\ subscribers' = subscribers

\* This step invokes a callback: for an event that is not older than any
\* event dispatched before, and a callback that is in the subscriber list of
\* the event's type at this moment.
DispatchedInOrder ==
    LET d == delivered'[Len(delivered')]
    IN  /\ \A j \in 1..Len(delivered) : delivered[j].seq <= d.seq
        /\ \E i \in 1..MaxTasks :
              /\ tasks[i].pc = "dispatching"
              /\ tasks[i].ev.seq = d.seq
              /\ d.cb \in Range(subscribers[tasks[i].ev.type])

====
